---- MODULE Spec2Model ----
(***************************************************************************)
(* Settlement and synchronisation layer of src/src/App.jsx: the monetary   *)
(* handlers (handleTip, handleBuyTicket, handleSellTicket), the social     *)
(* handlers (handleLike, handleComment, handleRepost, handleFollowToggle,  *)
(* handlePost, handleMarkNotificationRead), the effects with their change  *)
(* feeds and refetches, over the mirror store (wallets, profiles, posts,   *)
(* comments, notifications) shared by several client instances.            *)
(*                                                                         *)
(* Every handler is an async function: it is split at its awaits.  One     *)
(* action = the server executes the awaited request and the handler runs   *)
(* on to its next await.  A handler instance ("attempt") keeps the values  *)
(* its closure captured when it was invoked (walletData,                   *)
(* currentWalletAddress), as React closures do.                            *)
(***************************************************************************)
EXTENDS Integers, Sequences, FiniteSets, TLC

\* ---------------------------------------------------------------- bounds
Addr == {"A", "B"}
Clients == {"c1", "c2"}
PostIds == {"p1"}
MaxAtt == 2          \* handler invocations in one behaviour
MaxOne == 1          \* the same in the single-client specifications
MaxInitBal == 1      \* largest funded balance in an initial wallet record
MaxAmt == 1          \* largest tip amount

Slots == 1..MaxAtt
Amounts == 0..MaxAmt   \* amounts handed to handleTip; 0 is refused

\* ------------------------------------------------------- JS array helpers
\* Array.prototype.findIndex(ticket => ticket.wallet_address === addr);
\* 0 stands for JavaScript's -1 (sequences are 1-based).
FindIndex(list, addr) ==
    IF \E i \in DOMAIN list : list[i].wallet_address = addr
    THEN CHOOSE i \in DOMAIN list :
            /\ list[i].wallet_address = addr
            /\ \A j \in DOMAIN list : list[j].wallet_address = addr => i <= j
    ELSE 0

\* Array.prototype.includes
Includes(list, x) == \E i \in DOMAIN list : list[i] = x

\* Array.prototype.filter(addr => addr !== x)
FilterOut(list, x) == SelectSeq(list, LAMBDA e : e # x)

\* Array.prototype.splice(i, 1)
RemoveAt(list, i) ==
    [j \in 1..(Len(list) - 1) |-> IF j < i THEN list[j] ELSE list[j + 1]]

\* number of distinct elements of an array
Distinct(list) == Cardinality({list[i] : i \in DOMAIN list})

\* the second argument whatever the first is
MaxSecond(a, b) == b

\* Math.max
Max(a, b) == IF a >= b THEN a ELSE b

\* count of the holding entry for addr in a tickets_holding array (0 if none)
HoldingCount(list, addr) ==
    IF FindIndex(list, addr) = 0 THEN 0 ELSE list[FindIndex(list, addr)].count

\* ------------------------------------------------------------------ state
VARIABLES
    wallets,             \* mirror table wallets: address -> record
    profiles,            \* mirror table profiles: address -> record
    posts,               \* mirror table posts: id -> record
    notifications,       \* mirror table notifications, in insertion order
    cwa,                 \* currentWalletAddress of each client
    currentUserProfile,  \* useState currentUserProfile of each client
    walletData,          \* useState walletData of each client
    walletVer,           \* identity of the object held in walletData
    walletFeed,          \* a wallets change event / the mount awaits delivery
    postsCache,          \* useState posts of each client: the rows it displays
    postsFeed,           \* a posts change event / the mount awaits delivery
    att,                 \* handler instances
    total0,              \* sum of gor_balance in the initial state
    comments,            \* mirror table comments, in insertion order
    subs,                \* change feeds each client holds open, in opening order
    postsReply           \* answers to fetchPosts selects still on their way

vars == <<wallets, profiles, posts, notifications, cwa, currentUserProfile,
          walletData, walletVer, walletFeed, postsCache, postsFeed,
          att, total0, comments, subs, postsReply>>

storeVars == <<wallets, profiles, posts, notifications>>
walletCacheVars == <<walletData, walletVer, walletFeed>>
postsCacheVars == <<postsCache, postsFeed>>
busVars == <<subs, postsReply>>

NoProfile == [wallet_address |-> "none"]
NoTx == [source |-> "none", dest |-> "none", amount |-> 0]

\* useState({ gor_balance: 0, tickets_holding: [] })
DefaultWalletData == [gor_balance |-> 0, tickets_holding |-> <<>>]

NoWallet == [exists |-> FALSE, gor_balance |-> 0, tickets_holding |-> <<>>]

IdleAtt ==
    [pc |-> "idle", kind |-> "none", client |-> "none", me |-> "none",
     target |-> "none", amount |-> 0, post |-> "none", flag |-> FALSE,
     wd |-> DefaultWalletData, ver |-> 0, num |-> 0, list |-> <<>>,
     tx |-> NoTx, confirmed |-> FALSE, writes |-> 0, notified |-> FALSE,
     shown |-> "none", reason |-> "none", dS |-> 0, dR |-> 0,
     pre |-> [bal |-> 0, cnt |-> 0, te |-> 0], solo |-> FALSE]

Terminal == {"aborted", "failed", "done"}
InFlight(a) == att[a].pc \notin (Terminal \cup {"idle"})

\* sum of gor_balance over all wallet records
RECURSIVE SumBal(_, _)
SumBal(w, S) ==
    IF S = {} THEN 0
    ELSE LET x == CHOOSE y \in S : TRUE
         IN (IF w[x].exists THEN w[x].gor_balance ELSE 0) + SumBal(w, S \ {x})

TotalBalance == SumBal(wallets, Addr)

\* ------------------------------------------------ change propagation bus
\* the currentWalletAddress of a client without a connected wallet (null)
NoAddress == "none"

\* a change feed: supabase.from(table).on('*', handler)[.eq(column, key)]
\* .subscribe(); "*" is the key of a feed opened without .eq
Feed(table, key) == [table |-> table, key |-> key]

\* the client holds an open feed for that table and key
Subscribed(c, table, key) == Includes(subs[c], Feed(table, key))

\* the feeds of the two effects that do not depend on the address
TableFeeds == <<Feed("posts", "*"), Feed("profiles", "*")>>

\* the feeds of the three effects that return early without an address
AddressFeeds(x) ==
    IF x = NoAddress THEN <<>>
    ELSE <<Feed("profiles", x), Feed("wallets", x), Feed("notifications", x)>>

\* the feeds a mounted client has opened when its address is x
MountedFeeds(x) == TableFeeds \o AddressFeeds(x)

\* A write to the row of address x in wallets raises a change event on the
\* feed every client opened with .eq('wallet_address', currentWalletAddress).
WalletChanged(feed, x) ==
    [c \in Clients |-> feed[c] \/ Subscribed(c, "wallets", x)]

\* A write to any row of posts raises a change event on every posts feed.
PostsChanged(feed) ==
    [c \in Clients |-> feed[c] \/ Subscribed(c, "posts", "*")]


\* ------------------------------------------------------ local state cache
\* Identity of the object a setWalletData call stores: one that no handler
\* instance of the client still holds in its closure.
FreshVer(c) ==
    LET used == {att[a].ver : a \in {b \in Slots : InFlight(b) /\ att[b].client = c}}
    IN CHOOSE n \in 0..MaxAtt :
          /\ n \notin used
          /\ \A m \in 0..MaxAtt : m < n => m \in used

\* fetchWalletData, run by the mount effect and by every change event of
\* the client's wallets feed: select(...).single() answers with the row
\* (setWalletData(data)), with an error (showMessage only), or with
\* "no rows" (PGRST116): then the default row is inserted and, unless the
\* insert fails, setWalletData of the default record.
FetchWalletData(c) ==
    /\ walletFeed[c]
    /\ LET x == cwa[c]
           w == wallets[x]
       IN \E ok \in BOOLEAN :
            IF ~ok
            THEN /\ walletFeed' = [walletFeed EXCEPT ![c] = FALSE]
                 /\ UNCHANGED <<wallets, walletData, walletVer>>
            ELSE IF w.exists
            THEN /\ walletData' = [walletData EXCEPT ![c] =
                        [gor_balance |-> w.gor_balance,
                         tickets_holding |-> w.tickets_holding]]
                 /\ walletVer' = [walletVer EXCEPT ![c] = FreshVer(c)]
                 /\ walletFeed' = [walletFeed EXCEPT ![c] = FALSE]
                 /\ UNCHANGED wallets
            ELSE /\ wallets' = [wallets EXCEPT ![x] =
                        [exists |-> TRUE, gor_balance |-> 0, tickets_holding |-> <<>>]]
                 /\ walletData' = [walletData EXCEPT ![c] = DefaultWalletData]
                 /\ walletVer' = [walletVer EXCEPT ![c] = FreshVer(c)]
                 /\ walletFeed' = WalletChanged([walletFeed EXCEPT ![c] = FALSE], x)
    /\ UNCHANGED <<profiles, posts, notifications, cwa, currentUserProfile,
                   postsCacheVars, att, total0, comments, busVars>>

\* --------------------------------------------------- handler bookkeeping
\* The slot a new handler instance takes: the first unused one.
StartSlot(a) ==
    att[a].pc = "idle" /\ \A b \in Slots : b < a => att[b].pc # "idle"

\* closure of a handler invoked by client c in the current render
NewAtt(kind, c, target, amount) ==
    [IdleAtt EXCEPT !.kind = kind, !.client = c, !.me = cwa[c],
                    !.target = target, !.amount = amount,
                    !.wd = walletData[c], !.ver = walletVer[c],
                    !.pre = [bal |-> wallets[cwa[c]].gor_balance,
                             cnt |-> HoldingCount(wallets[cwa[c]].tickets_holding, target),
                             te |-> profiles[target].tickets_earned],
                    !.solo = \A b \in Slots : ~InFlight(b)]

\* the handler returns / ends: its closure is dropped
Ended(r, pc, reason, shown) ==
    [r EXCEPT !.pc = pc, !.reason = reason, !.shown = shown,
              !.wd = DefaultWalletData, !.ver = 0, !.num = 0, !.list = <<>>]

\* early return after showMessage(..., "error")
Aborted(r, reason) == Ended(r, "aborted", reason, "error")

\* catch (error) { showMessage(`Failed ...`, "error") }
Failed(r, reason) == Ended(r, "failed", reason, "error")

\* ------------------------------------------------------------- handleTip
\* handleTip's guards without the test of the amount
TipPrecheckNoAmount(c, target, amount) ==
    IF currentUserProfile[c] = NoProfile THEN "connect"
    ELSE IF cwa[c] = target THEN "self"
    ELSE IF walletData[c].gor_balance < amount THEN "balance"
    ELSE "ok"

\* the guards of handleTip, in source order; "ok" when all pass
TipPrecheck(c, target, amount) ==
    IF currentUserProfile[c] = NoProfile THEN "connect"
    ELSE IF cwa[c] = target THEN "self"
    ELSE IF walletData[c].gor_balance < amount THEN "balance"
    ELSE IF amount <= 0 THEN "amount"
    ELSE "ok"

\* handleTip up to its first await (connection.getLatestBlockhash)
TipStart(c, target, amount) ==
    /\ \E a \in Slots :
         /\ StartSlot(a)
         /\ LET r == NewAtt("tip", c, target, amount)
                v == TipPrecheck(c, target, amount)
            IN att' = [att EXCEPT ![a] =
                         IF v = "ok" THEN [r EXCEPT !.pc = "blockhash", !.shown = "info"]
                         ELSE Aborted(r, v)]
    /\ UNCHANGED <<storeVars, cwa, currentUserProfile, walletCacheVars,
                   postsCacheVars, total0, comments, busVars>>

\* await connection.getLatestBlockhash()
TipBlockhash(a) ==
    /\ att[a].kind = "tip" /\ att[a].pc = "blockhash"
    /\ \E ok \in BOOLEAN :
         att' = [att EXCEPT ![a] =
                   IF ok THEN [@ EXCEPT !.pc = "sign"] ELSE Failed(@, "blockhash")]
    /\ UNCHANGED <<storeVars, cwa, currentUserProfile, walletCacheVars,
                   postsCacheVars, total0, comments, busVars>>

\* await sendTransaction(transaction, connection): the holder signs and the
\* instruction is submitted, or the holder / the network rejects it
TipSend(a) ==
    /\ att[a].kind = "tip" /\ att[a].pc = "sign"
    /\ \E ok \in BOOLEAN :
         att' = [att EXCEPT ![a] =
                   IF ok THEN [@ EXCEPT !.pc = "confirm",
                                        !.tx = [source |-> att[a].me,
                                                dest |-> att[a].target,
                                                amount |-> att[a].amount]]
                   ELSE Failed(@, "send")]
    /\ UNCHANGED <<storeVars, cwa, currentUserProfile, walletCacheVars,
                   postsCacheVars, total0, comments, busVars>>

\* confirmTransaction whose failure is not thrown: the handler goes on
TipConfirmIgnoresError(a) ==
    /\ att[a].kind = "tip" /\ att[a].pc = "confirm"
    /\ \E ok \in BOOLEAN :
         att' = [att EXCEPT ![a] =
                   IF ok THEN [@ EXCEPT !.pc = "w_sender", !.confirmed = TRUE,
                                        !.shown = "success"]
                   ELSE [@ EXCEPT !.pc = "w_sender"]]
    /\ UNCHANGED <<storeVars, cwa, currentUserProfile, walletCacheVars,
                   postsCacheVars, total0, comments, busVars>>

\* a handler that builds and submits the instruction again when the
\* confirmation fails
TipConfirmRetries(a) ==
    /\ att[a].kind = "tip" /\ att[a].pc = "confirm"
    /\ \E ok \in BOOLEAN :
         att' = [att EXCEPT ![a] =
                   IF ok THEN [@ EXCEPT !.pc = "w_sender", !.confirmed = TRUE,
                                        !.shown = "success"]
                   ELSE [@ EXCEPT !.pc = "blockhash"]]
    /\ UNCHANGED <<storeVars, cwa, currentUserProfile, walletCacheVars,
                   postsCacheVars, total0, comments, busVars>>

\* await connection.confirmTransaction(signature, 'processed')
TipConfirm(a) ==
    /\ att[a].kind = "tip" /\ att[a].pc = "confirm"
    /\ \E ok \in BOOLEAN :
         att' = [att EXCEPT ![a] =
                   IF ok THEN [@ EXCEPT !.pc = "w_sender", !.confirmed = TRUE,
                                        !.shown = "success"]
                   ELSE Failed(@, "confirm")]
    /\ UNCHANGED <<storeVars, cwa, currentUserProfile, walletCacheVars,
                   postsCacheVars, total0, comments, busVars>>

\* the balance handleTip writes to the sender's row
TipSenderBalance(r) == r.wd.gor_balance - r.amount

\* the sender update without "if (senderUpdateError) throw senderUpdateError"
TipSenderUpdateNoThrow(a) ==
    /\ att[a].kind = "tip" /\ att[a].pc = "w_sender"
    /\ LET r == att[a]
           x == r.me
       IN \E ok \in BOOLEAN :
            IF ok
            THEN /\ wallets' = IF wallets[x].exists
                               THEN [wallets EXCEPT ![x].gor_balance = TipSenderBalance(r)]
                               ELSE wallets
                 /\ walletFeed' = IF wallets[x].exists
                                  THEN WalletChanged(walletFeed, x) ELSE walletFeed
                 /\ att' = [att EXCEPT ![a] =
                              [r EXCEPT !.pc = "r_recv",
                                        !.writes = @ + (IF wallets[x].exists THEN 1 ELSE 0),
                                        !.dS = wallets'[x].gor_balance - wallets[x].gor_balance]]
            ELSE /\ att' = [att EXCEPT ![a] = [r EXCEPT !.pc = "r_recv"]]
                 /\ UNCHANGED <<wallets, walletFeed>>
    /\ UNCHANGED <<profiles, posts, notifications, cwa, currentUserProfile,
                   walletData, walletVer, postsCacheVars, total0, comments, busVars>>

\* await supabase.from('wallets').update({gor_balance: ...}).eq(sender)
TipSenderUpdate(a) ==
    /\ att[a].kind = "tip" /\ att[a].pc = "w_sender"
    /\ LET r == att[a]
           x == r.me
       IN \E ok \in BOOLEAN :
            IF ok
            THEN /\ wallets' = IF wallets[x].exists
                               THEN [wallets EXCEPT ![x].gor_balance = TipSenderBalance(r)]
                               ELSE wallets
                 /\ walletFeed' = IF wallets[x].exists
                                  THEN WalletChanged(walletFeed, x) ELSE walletFeed
                 /\ att' = [att EXCEPT ![a] =
                              [r EXCEPT !.pc = "r_recv",
                                        !.writes = @ + (IF wallets[x].exists THEN 1 ELSE 0),
                                        !.dS = wallets'[x].gor_balance - wallets[x].gor_balance]]
            ELSE /\ att' = [att EXCEPT ![a] = Failed(r, "w_sender")]
                 /\ UNCHANGED <<wallets, walletFeed>>
    /\ UNCHANGED <<profiles, posts, notifications, cwa, currentUserProfile,
                   walletData, walletVer, postsCacheVars, total0, comments, busVars>>

\* await supabase.from('wallets').select('gor_balance').eq(receiver).single();
\* "no rows" (PGRST116) is not thrown: the balance is then taken as 0
TipReceiverFetch(a) ==
    /\ att[a].kind = "tip" /\ att[a].pc = "r_recv"
    /\ LET r == att[a]
           w == wallets[r.target]
       IN \E ok \in BOOLEAN :
            att' = [att EXCEPT ![a] =
                      IF ok THEN [r EXCEPT !.pc = "w_recv",
                                           !.num = IF w.exists THEN w.gor_balance ELSE 0]
                      ELSE Failed(r, "r_recv")]
    /\ UNCHANGED <<storeVars, cwa, currentUserProfile, walletCacheVars,
                   postsCacheVars, total0, comments, busVars>>

\* the receiver upsert retried after an error: the handler goes back to the
\* select of the receiver's balance
TipReceiverUpsertRetries(a) ==
    /\ att[a].kind = "tip" /\ att[a].pc = "w_recv"
    /\ LET r == att[a]
           y == r.target
       IN \E ok \in BOOLEAN :
            IF ok
            THEN /\ wallets' = [wallets EXCEPT ![y] =
                                  IF @.exists
                                  THEN [@ EXCEPT !.gor_balance = r.num + r.amount]
                                  ELSE [exists |-> TRUE, gor_balance |-> r.num + r.amount,
                                        tickets_holding |-> <<>>]]
                 /\ walletFeed' = WalletChanged(walletFeed, y)
                 /\ att' = [att EXCEPT ![a] =
                              [r EXCEPT !.pc = "notify", !.writes = @ + 1,
                                        !.shown = "success",
                                        !.dR = wallets'[y].gor_balance - wallets[y].gor_balance]]
            ELSE /\ att' = [att EXCEPT ![a] = [r EXCEPT !.pc = "r_recv", !.num = 0]]
                 /\ UNCHANGED <<wallets, walletFeed>>
    /\ UNCHANGED <<profiles, posts, notifications, cwa, currentUserProfile,
                   walletData, walletVer, postsCacheVars, total0, comments, busVars>>

\* await supabase.from('wallets').upsert({wallet_address, gor_balance: ...})
TipReceiverUpsert(a) ==
    /\ att[a].kind = "tip" /\ att[a].pc = "w_recv"
    /\ LET r == att[a]
           y == r.target
       IN \E ok \in BOOLEAN :
            IF ok
            THEN /\ wallets' = [wallets EXCEPT ![y] =
                                  IF @.exists
                                  THEN [@ EXCEPT !.gor_balance = r.num + r.amount]
                                  ELSE [exists |-> TRUE, gor_balance |-> r.num + r.amount,
                                        tickets_holding |-> <<>>]]
                 /\ walletFeed' = WalletChanged(walletFeed, y)
                 /\ att' = [att EXCEPT ![a] =
                              [r EXCEPT !.pc = "notify", !.writes = @ + 1,
                                        !.shown = "success",
                                        !.dR = wallets'[y].gor_balance - wallets[y].gor_balance]]
            ELSE /\ att' = [att EXCEPT ![a] = Failed(r, "w_recv")]
                 /\ UNCHANGED <<wallets, walletFeed>>
    /\ UNCHANGED <<profiles, posts, notifications, cwa, currentUserProfile,
                   walletData, walletVer, postsCacheVars, total0, comments, busVars>>

\* the insert of the tip notification made twice
TipNotifyTwice(a) ==
    /\ att[a].kind = "tip" /\ att[a].pc = "notify"
    /\ LET r == att[a]
           n == [recipient_address |-> r.target, sender_address |-> r.me,
                 type |-> "tip", read |-> FALSE]
       IN \E ok \in BOOLEAN :
            IF ok
            THEN /\ notifications' = Append(Append(notifications, n), n)
                 /\ att' = [att EXCEPT ![a] =
                              Ended([r EXCEPT !.notified = TRUE], "done", "none", "success")]
            ELSE /\ att' = [att EXCEPT ![a] = Ended(r, "done", "none", "success")]
                 /\ UNCHANGED notifications
    /\ UNCHANGED <<wallets, profiles, posts, cwa, currentUserProfile,
                   walletCacheVars, postsCacheVars, total0, comments, busVars>>

\* await supabase.from('notifications').insert({... type: 'tip' ...}); the
\* returned error is not looked at
TipNotify(a) ==
    /\ att[a].kind = "tip" /\ att[a].pc = "notify"
    /\ LET r == att[a]
       IN \E ok \in BOOLEAN :
            IF ok
            THEN /\ notifications' = Append(notifications,
                        [recipient_address |-> r.target, sender_address |-> r.me,
                         type |-> "tip", read |-> FALSE])
                 /\ att' = [att EXCEPT ![a] =
                              Ended([r EXCEPT !.notified = TRUE], "done", "none", "success")]
            ELSE /\ att' = [att EXCEPT ![a] = Ended(r, "done", "none", "success")]
                 /\ UNCHANGED notifications
    /\ UNCHANGED <<wallets, profiles, posts, cwa, currentUserProfile,
                   walletCacheVars, postsCacheVars, total0, comments, busVars>>


\* ------------------------------------------------------- handleBuyTicket
\* handleBuyTicket's guards without the test of the balance
BuyPrecheckNoBalance(c, target) ==
    IF currentUserProfile[c] = NoProfile THEN "connect"
    ELSE IF cwa[c] = target THEN "self"
    ELSE "ok"

\* the guards of handleBuyTicket, in source order; "ok" when all pass
BuyPrecheck(c, target) ==
    IF currentUserProfile[c] = NoProfile THEN "connect"
    ELSE IF cwa[c] = target THEN "self"
    ELSE IF walletData[c].gor_balance < 1 THEN "balance"
    ELSE "ok"

\* handleBuyTicket up to its first await (connection.getLatestBlockhash)
BuyStart(c, target) ==
    /\ \E a \in Slots :
         /\ StartSlot(a)
         /\ LET r == NewAtt("buy", c, target, 1)
                v == BuyPrecheck(c, target)
            IN att' = [att EXCEPT ![a] =
                         IF v = "ok" THEN [r EXCEPT !.pc = "blockhash", !.shown = "info"]
                         ELSE Aborted(r, v)]
    /\ UNCHANGED <<storeVars, cwa, currentUserProfile, walletCacheVars,
                   postsCacheVars, total0, comments, busVars>>

\* await connection.getLatestBlockhash()
BuyBlockhash(a) ==
    /\ att[a].kind = "buy" /\ att[a].pc = "blockhash"
    /\ \E ok \in BOOLEAN :
         att' = [att EXCEPT ![a] =
                   IF ok THEN [@ EXCEPT !.pc = "sign"] ELSE Failed(@, "blockhash")]
    /\ UNCHANGED <<storeVars, cwa, currentUserProfile, walletCacheVars,
                   postsCacheVars, total0, comments, busVars>>

\* await sendTransaction(transaction, connection), a transfer of 1 to target
BuySend(a) ==
    /\ att[a].kind = "buy" /\ att[a].pc = "sign"
    /\ \E ok \in BOOLEAN :
         att' = [att EXCEPT ![a] =
                   IF ok THEN [@ EXCEPT !.pc = "confirm",
                                        !.tx = [source |-> att[a].me,
                                                dest |-> att[a].target,
                                                amount |-> 1]]
                   ELSE Failed(@, "send")]
    /\ UNCHANGED <<storeVars, cwa, currentUserProfile, walletCacheVars,
                   postsCacheVars, total0, comments, busVars>>

\* updatedTicketsHolding when the captured list has an entry for the target
\* at index i: that entry replaced by a copy with count + 1
BuyUpdatedHolding(list, i) == [list EXCEPT ![i].count = @ + 1]

\* await connection.confirmTransaction(signature, 'processed'), then the copy
\* of walletData.tickets_holding and the search of the target in it
BuyConfirm(a) ==
    /\ att[a].kind = "buy" /\ att[a].pc = "confirm"
    /\ LET r == att[a]
           i == FindIndex(r.wd.tickets_holding, r.target)
       IN \E ok \in BOOLEAN :
            att' = [att EXCEPT ![a] =
                      IF ~ok THEN Failed(r, "confirm")
                      ELSE IF i > 0
                      THEN [r EXCEPT !.pc = "w_wallet", !.confirmed = TRUE,
                                     !.shown = "success",
                                     !.list = BuyUpdatedHolding(r.wd.tickets_holding, i)]
                      ELSE [r EXCEPT !.pc = "r_username", !.confirmed = TRUE,
                                     !.shown = "success"]]
    /\ UNCHANGED <<storeVars, cwa, currentUserProfile, walletCacheVars,
                   postsCacheVars, total0, comments, busVars>>

\* await supabase.from('profiles').select('username').eq(target).single(),
\* then the push of { wallet_address: target, count: 1, username }
BuyTargetUsername(a) ==
    /\ att[a].kind = "buy" /\ att[a].pc = "r_username"
    /\ LET r == att[a]
       IN \E ok \in BOOLEAN :
            att' = [att EXCEPT ![a] =
                      IF ok /\ profiles[r.target].exists
                      THEN [r EXCEPT !.pc = "w_wallet",
                                     !.list = Append(r.wd.tickets_holding,
                                                [wallet_address |-> r.target, count |-> 1])]
                      ELSE Failed(r, "r_username")]
    /\ UNCHANGED <<storeVars, cwa, currentUserProfile, walletCacheVars,
                   postsCacheVars, total0, comments, busVars>>

\* the balance handleBuyTicket writes to the buyer's row
BuyBalance(r) == r.wd.gor_balance - 1

\* await supabase.from('wallets').update({gor_balance, tickets_holding}).eq(buyer)
BuyWalletUpdate(a) ==
    /\ att[a].kind = "buy" /\ att[a].pc = "w_wallet"
    /\ LET r == att[a]
           x == r.me
       IN \E ok \in BOOLEAN :
            IF ok
            THEN /\ wallets' = IF wallets[x].exists
                               THEN [wallets EXCEPT ![x].gor_balance = BuyBalance(r),
                                                    ![x].tickets_holding = r.list]
                               ELSE wallets
                 /\ walletFeed' = IF wallets[x].exists
                                  THEN WalletChanged(walletFeed, x) ELSE walletFeed
                 /\ att' = [att EXCEPT ![a] =
                              [r EXCEPT !.pc = "r_earned",
                                        !.writes = @ + (IF wallets[x].exists THEN 1 ELSE 0)]]
            ELSE /\ att' = [att EXCEPT ![a] = Failed(r, "w_wallet")]
                 /\ UNCHANGED <<wallets, walletFeed>>
    /\ UNCHANGED <<profiles, posts, notifications, cwa, currentUserProfile,
                   walletData, walletVer, postsCacheVars, total0, comments, busVars>>

\* await supabase.from('profiles').select('tickets_earned').eq(target).single()
BuyTargetFetch(a) ==
    /\ att[a].kind = "buy" /\ att[a].pc = "r_earned"
    /\ LET r == att[a]
       IN \E ok \in BOOLEAN :
            att' = [att EXCEPT ![a] =
                      IF ok /\ profiles[r.target].exists
                      THEN [r EXCEPT !.pc = "w_earned",
                                     !.num = profiles[r.target].tickets_earned]
                      ELSE Failed(r, "r_earned")]
    /\ UNCHANGED <<storeVars, cwa, currentUserProfile, walletCacheVars,
                   postsCacheVars, total0, comments, busVars>>

\* await supabase.from('profiles').update({tickets_earned: ... + 1}).eq(target)
BuyProfileUpdate(a) ==
    /\ att[a].kind = "buy" /\ att[a].pc = "w_earned"
    /\ LET r == att[a]
           y == r.target
       IN \E ok \in BOOLEAN :
            IF ok
            THEN /\ profiles' = IF profiles[y].exists
                                THEN [profiles EXCEPT ![y].tickets_earned = r.num + 1]
                                ELSE profiles
                 /\ att' = [att EXCEPT ![a] =
                              [r EXCEPT !.pc = "notify", !.shown = "success",
                                        !.writes = @ + (IF profiles[y].exists THEN 1 ELSE 0)]]
            ELSE /\ att' = [att EXCEPT ![a] = Failed(r, "w_earned")]
                 /\ UNCHANGED profiles
    /\ UNCHANGED <<wallets, posts, notifications, cwa, currentUserProfile,
                   walletCacheVars, postsCacheVars, total0, comments, busVars>>

\* await supabase.from('notifications').insert({... type: 'ticket_buy' ...});
\* the returned error is not looked at
BuyNotify(a) ==
    /\ att[a].kind = "buy" /\ att[a].pc = "notify"
    /\ LET r == att[a]
       IN \E ok \in BOOLEAN :
            IF ok
            THEN /\ notifications' = Append(notifications,
                        [recipient_address |-> r.target, sender_address |-> r.me,
                         type |-> "ticket_buy", read |-> FALSE])
                 /\ att' = [att EXCEPT ![a] =
                              Ended([r EXCEPT !.notified = TRUE], "done", "none", "success")]
            ELSE /\ att' = [att EXCEPT ![a] = Ended(r, "done", "none", "success")]
                 /\ UNCHANGED notifications
    /\ UNCHANGED <<wallets, profiles, posts, cwa, currentUserProfile,
                   walletCacheVars, postsCacheVars, total0, comments, busVars>>

\* ------------------------------------------------------ handleSellTicket
\* updatedTicketsHolding[existingTicketIndex].count -= 1: the entry is an
\* object shared with walletData.tickets_holding, which it changes too
SellDecrement(list, i) == [list EXCEPT ![i].count = @ - 1]

\* updatedTicketsHolding after the splice of an entry that reached count 0
SellUpdatedHolding(list, i) ==
    IF list[i].count = 0 THEN RemoveAt(list, i) ELSE list

\* handleSellTicket up to its first await (the wallets update).  The
\* decrement reaches every closure that holds the same walletData object:
\* the client's current state if it is still that object, and the handler
\* instances of the client that captured it.
SellStart(c, target) ==
    /\ \E a \in Slots :
         /\ StartSlot(a)
         /\ LET r == NewAtt("sell", c, target, 1)
                held == walletData[c].tickets_holding
                i == FindIndex(held, target)
            IN IF currentUserProfile[c] = NoProfile
               THEN /\ att' = [att EXCEPT ![a] = Aborted(r, "connect")]
                    /\ UNCHANGED walletData
               ELSE IF i = 0 \/ held[i].count = 0
               THEN /\ att' = [att EXCEPT ![a] = Aborted(r, "noticket")]
                    /\ UNCHANGED walletData
               ELSE LET m == SellDecrement(held, i)
                    IN /\ walletData' = [walletData EXCEPT ![c].tickets_holding = m]
                       /\ att' = [b \in Slots |->
                             IF b = a
                             THEN [r EXCEPT !.pc = "w_wallet", !.shown = "info",
                                            !.wd = [r.wd EXCEPT !.tickets_holding = m],
                                            !.list = SellUpdatedHolding(m, i)]
                             ELSE IF InFlight(b) /\ att[b].client = c
                                     /\ att[b].ver = walletVer[c]
                             THEN [att[b] EXCEPT !.wd = [@ EXCEPT !.tickets_holding = m]]
                             ELSE att[b]]
    /\ UNCHANGED <<storeVars, cwa, currentUserProfile, walletVer, walletFeed,
                   postsCacheVars, total0, comments, busVars>>

\* the balance handleSellTicket writes to the seller's row
SellBalance(r) == r.wd.gor_balance + 1

\* await supabase.from('wallets').update({gor_balance, tickets_holding}).eq(seller)
SellWalletUpdate(a) ==
    /\ att[a].kind = "sell" /\ att[a].pc = "w_wallet"
    /\ LET r == att[a]
           x == r.me
       IN \E ok \in BOOLEAN :
            IF ok
            THEN /\ wallets' = IF wallets[x].exists
                               THEN [wallets EXCEPT ![x].gor_balance = SellBalance(r),
                                                    ![x].tickets_holding = r.list]
                               ELSE wallets
                 /\ walletFeed' = IF wallets[x].exists
                                  THEN WalletChanged(walletFeed, x) ELSE walletFeed
                 /\ att' = [att EXCEPT ![a] =
                              [r EXCEPT !.pc = "r_earned",
                                        !.writes = @ + (IF wallets[x].exists THEN 1 ELSE 0)]]
            ELSE /\ att' = [att EXCEPT ![a] = Failed(r, "w_wallet")]
                 /\ UNCHANGED <<wallets, walletFeed>>
    /\ UNCHANGED <<profiles, posts, notifications, cwa, currentUserProfile,
                   walletData, walletVer, postsCacheVars, total0, comments, busVars>>

\* await supabase.from('profiles').select('tickets_earned').eq(target).single()
SellTargetFetch(a) ==
    /\ att[a].kind = "sell" /\ att[a].pc = "r_earned"
    /\ LET r == att[a]
       IN \E ok \in BOOLEAN :
            att' = [att EXCEPT ![a] =
                      IF ok /\ profiles[r.target].exists
                      THEN [r EXCEPT !.pc = "w_earned",
                                     !.num = profiles[r.target].tickets_earned]
                      ELSE Failed(r, "r_earned")]
    /\ UNCHANGED <<storeVars, cwa, currentUserProfile, walletCacheVars,
                   postsCacheVars, total0, comments, busVars>>

\* await supabase.from('profiles').update({tickets_earned:
\* Math.max(0, ... - 1)}).eq(target), then the success message
SellProfileUpdate(a) ==
    /\ att[a].kind = "sell" /\ att[a].pc = "w_earned"
    /\ LET r == att[a]
           y == r.target
       IN \E ok \in BOOLEAN :
            IF ok
            THEN /\ profiles' = IF profiles[y].exists
                                THEN [profiles EXCEPT ![y].tickets_earned = Max(0, r.num - 1)]
                                ELSE profiles
                 /\ att' = [att EXCEPT ![a] =
                              Ended([r EXCEPT !.writes = @ + (IF profiles[y].exists THEN 1 ELSE 0)],
                                    "done", "none", "success")]
            ELSE /\ att' = [att EXCEPT ![a] = Failed(r, "w_earned")]
                 /\ UNCHANGED profiles
    /\ UNCHANGED <<wallets, posts, notifications, cwa, currentUserProfile,
                   walletCacheVars, postsCacheVars, total0, comments, busVars>>

\* ------------------------------------------------------------ fetchPosts
\* fetchPosts, run by the mount effect and by every change event of the
\* posts feed: select('*') answers with all rows (setPosts(data)) or with
\* an error (showMessage only).
FetchPosts(c) ==
    /\ postsFeed[c]
    /\ \E ok \in BOOLEAN :
         postsCache' = IF ok THEN [postsCache EXCEPT ![c] = posts] ELSE postsCache
    /\ postsFeed' = [postsFeed EXCEPT ![c] = FALSE]
    /\ UNCHANGED <<storeVars, cwa, currentUserProfile, walletCacheVars, att, total0, comments, busVars>>

\* ------------------------------------------------------------ handleLike
\* isLiked as the Post component computes it from the client's posts state
IsLiked(c, p) == Includes(postsCache[c][p].likes, cwa[c])

\* a tip or buyTicket of client c awaits sendTransaction or
\* confirmTransaction
LedgerPending(c) ==
    \E a \in Slots : /\ att[a].client = c /\ att[a].kind \in {"tip", "buy"}
                     /\ att[a].pc \in {"sign", "confirm"}

\* onLike refused while the client awaits the ledger
LikeStartWhenLedgerFree(c, p) ==
    /\ ~LedgerPending(c)
    /\ p \in DOMAIN postsCache[c]
    /\ \E a \in Slots :
         /\ StartSlot(a)
         /\ att' = [att EXCEPT ![a] =
                      [IdleAtt EXCEPT !.kind = "like", !.client = c, !.me = cwa[c],
                                      !.post = p, !.flag = IsLiked(c, p),
                                      !.pc = "r_post"]]
    /\ UNCHANGED <<storeVars, cwa, currentUserProfile, walletCacheVars,
                   postsCacheVars, total0, comments, busVars>>

\* onLike(post.id, isLiked) on a post the client displays, up to the first
\* await (the select of likes, likes_count)
LikeStart(c, p) ==
    /\ p \in DOMAIN postsCache[c]
    /\ \E a \in Slots :
         /\ StartSlot(a)
         /\ att' = [att EXCEPT ![a] =
                      [IdleAtt EXCEPT !.kind = "like", !.client = c, !.me = cwa[c],
                                      !.post = p, !.flag = IsLiked(c, p),
                                      !.pc = "r_post"]]
    /\ UNCHANGED <<storeVars, cwa, currentUserProfile, walletCacheVars,
                   postsCacheVars, total0, comments, busVars>>

\* updatedLikes of handleLike
LikeUpdatedLikes(likes, me, isCurrentlyLiked) ==
    IF isCurrentlyLiked THEN FilterOut(likes, me) ELSE Append(likes, me)

\* newLikesCount of handleLike
LikeNewCount(count, isCurrentlyLiked) ==
    IF isCurrentlyLiked THEN Max(0, count - 1) ELSE count + 1

\* await supabase.from('posts').select('likes, likes_count').eq(id).single(),
\* then the computation of updatedLikes and newLikesCount
LikeFetch(a) ==
    /\ att[a].kind = "like" /\ att[a].pc = "r_post"
    /\ LET r == att[a]
           row == posts[r.post]
       IN \E ok \in BOOLEAN :
            att' = [att EXCEPT ![a] =
                      IF ok
                      THEN [r EXCEPT !.pc = "w_post",
                                     !.list = LikeUpdatedLikes(row.likes, r.me, r.flag),
                                     !.num = LikeNewCount(row.likes_count, r.flag)]
                      ELSE Failed(r, "r_post")]
    /\ UNCHANGED <<storeVars, cwa, currentUserProfile, walletCacheVars,
                   postsCacheVars, total0, comments, busVars>>

\* an update that sends the whole post object the client displays, with the
\* new likes and likes_count
LikeUpdateWholeRow(a) ==
    /\ att[a].kind = "like" /\ att[a].pc = "w_post"
    /\ LET r == att[a]
       IN \E ok \in BOOLEAN :
            IF ok
            THEN /\ posts' = [posts EXCEPT ![r.post] =
                                [postsCache[r.client][r.post] EXCEPT
                                    !.likes = r.list, !.likes_count = r.num]]
                 /\ postsFeed' = PostsChanged(postsFeed)
                 /\ att' = [att EXCEPT ![a] =
                              Ended([r EXCEPT !.writes = @ + 1], "done", "none", "success")]
            ELSE /\ att' = [att EXCEPT ![a] = Failed(r, "w_post")]
                 /\ UNCHANGED <<posts, postsFeed>>
    /\ UNCHANGED <<wallets, profiles, notifications, cwa, currentUserProfile,
                   walletCacheVars, postsCache, total0, comments, busVars>>

\* await supabase.from('posts').update({likes, likes_count}).eq(id)
LikeUpdate(a) ==
    /\ att[a].kind = "like" /\ att[a].pc = "w_post"
    /\ LET r == att[a]
       IN \E ok \in BOOLEAN :
            IF ok
            THEN /\ posts' = [posts EXCEPT ![r.post].likes = r.list,
                                           ![r.post].likes_count = r.num]
                 /\ postsFeed' = PostsChanged(postsFeed)
                 /\ att' = [att EXCEPT ![a] =
                              Ended([r EXCEPT !.writes = @ + 1], "done", "none", "success")]
            ELSE /\ att' = [att EXCEPT ![a] = Failed(r, "w_post")]
                 /\ UNCHANGED <<posts, postsFeed>>
    /\ UNCHANGED <<wallets, profiles, notifications, cwa, currentUserProfile,
                   walletCacheVars, postsCache, total0, comments, busVars>>

\* ---------------------------------------------------------- handleRepost
\* onRepost(post.id) on a post the client displays, up to the first await
\* (the select of author_address, reposts, reposts_count)
RepostStart(c, p) ==
    /\ p \in DOMAIN postsCache[c]
    /\ \E a \in Slots :
         /\ StartSlot(a)
         /\ LET r == [IdleAtt EXCEPT !.kind = "repost", !.client = c, !.me = cwa[c],
                                     !.post = p]
            IN att' = [att EXCEPT ![a] =
                         IF currentUserProfile[c] = NoProfile
                         THEN Aborted(r, "connect")
                         ELSE [r EXCEPT !.pc = "r_post"]]
    /\ UNCHANGED <<storeVars, cwa, currentUserProfile, walletCacheVars,
                   postsCacheVars, total0, comments, busVars>>

\* the push made whether or not the address is already in the array
RepostNeededAlways(reposts, me) == TRUE

\* !updatedReposts.includes(currentWalletAddress)
RepostNeeded(reposts, me) == ~Includes(reposts, me)

\* await supabase.from('posts').select('author_address, reposts,
\* reposts_count').eq(id).single(), then the test and the push
RepostFetch(a) ==
    /\ att[a].kind = "repost" /\ att[a].pc = "r_post"
    /\ LET r == att[a]
           row == posts[r.post]
       IN \E ok \in BOOLEAN :
            att' = [att EXCEPT ![a] =
                      IF ~ok THEN Failed(r, "r_post")
                      ELSE IF RepostNeeded(row.reposts, r.me)
                      THEN [r EXCEPT !.pc = "w_post", !.target = row.author_address,
                                     !.list = Append(row.reposts, r.me),
                                     !.num = row.reposts_count + 1]
                      ELSE Aborted([r EXCEPT !.target = row.author_address], "already")]
    /\ UNCHANGED <<storeVars, cwa, currentUserProfile, walletCacheVars,
                   postsCacheVars, total0, comments, busVars>>

\* await supabase.from('posts').update({reposts, reposts_count}).eq(id)
RepostUpdate(a) ==
    /\ att[a].kind = "repost" /\ att[a].pc = "w_post"
    /\ LET r == att[a]
       IN \E ok \in BOOLEAN :
            IF ok
            THEN /\ posts' = [posts EXCEPT ![r.post].reposts = r.list,
                                           ![r.post].reposts_count = r.num]
                 /\ postsFeed' = PostsChanged(postsFeed)
                 /\ att' = [att EXCEPT ![a] =
                              IF r.target # r.me
                              THEN [r EXCEPT !.pc = "notify", !.writes = @ + 1,
                                             !.shown = "success"]
                              ELSE Ended([r EXCEPT !.writes = @ + 1],
                                         "done", "none", "success")]
            ELSE /\ att' = [att EXCEPT ![a] = Failed(r, "w_post")]
                 /\ UNCHANGED <<posts, postsFeed>>
    /\ UNCHANGED <<wallets, profiles, notifications, cwa, currentUserProfile,
                   walletCacheVars, postsCache, total0, comments, busVars>>

\* await supabase.from('notifications').insert({... type: 'repost' ...}); the
\* returned error is not looked at
RepostNotify(a) ==
    /\ att[a].kind = "repost" /\ att[a].pc = "notify"
    /\ LET r == att[a]
       IN \E ok \in BOOLEAN :
            IF ok
            THEN /\ notifications' = Append(notifications,
                        [recipient_address |-> r.target, sender_address |-> r.me,
                         type |-> "repost", read |-> FALSE])
                 /\ att' = [att EXCEPT ![a] =
                              Ended([r EXCEPT !.notified = TRUE], "done", "none", "success")]
            ELSE /\ att' = [att EXCEPT ![a] = Ended(r, "done", "none", "success")]
                 /\ UNCHANGED notifications
    /\ UNCHANGED <<wallets, profiles, posts, cwa, currentUserProfile,
                   walletCacheVars, postsCacheVars, total0, comments, busVars>>

\* ------------------------------------------------ fetchCurrentUserProfile
\* what setCurrentUserProfile(data) stores of the profile row of address x
ProfileData(x) == [wallet_address |-> x, following |-> profiles[x].following]

\* fetchCurrentUserProfile, run by every change event on the profile row of
\* the connected address (any column, written by any client): select('*')
\* .single() answers with the row (setCurrentUserProfile(data)) or with an
\* error (showMessage only).
FetchCurrentUserProfile(c) ==
    /\ profiles[cwa[c]].exists
    /\ \E ok \in BOOLEAN :
         currentUserProfile' =
            IF ok THEN [currentUserProfile EXCEPT ![c] = ProfileData(cwa[c])]
            ELSE currentUserProfile
    /\ UNCHANGED <<storeVars, cwa, walletCacheVars, postsCacheVars, att, total0, comments, busVars>>

\* ------------------------------- fetchCurrentUserProfile, select in flight
\* The profiles table has wallet_address as its primary key (the schema is
\* not part of the sources; the key is the one the selects with .single()
\* and .eq('wallet_address', ...) rely on): it holds at most one row per
\* address, and an insert for an address that has a row answers with an
\* error.
NoProfileRow ==
    [exists |-> FALSE, username |-> <<>>, tickets_earned |-> 0,
     following |-> <<>>, followers |-> <<>>]

\* `User_${currentWalletAddress.substring(0, 8)}`
DefaultUsername(x) == <<"User_", x>>

\* the row fetchCurrentUserProfile inserts for address x
DefaultProfileRow(x) ==
    [exists |-> TRUE, username |-> DefaultUsername(x), tickets_earned |-> 0,
     following |-> <<>>, followers |-> <<>>]

\* the profile effect runs (an address was connected) or a change event
\* arrives on the profile feed: fetchCurrentUserProfile() up to its await
\* (the select)
ProfileFetchStart(c) ==
    /\ cwa[c] \in Addr
    /\ \E a \in Slots :
         /\ StartSlot(a)
         /\ att' = [att EXCEPT ![a] =
                      [IdleAtt EXCEPT !.kind = "profile", !.client = c,
                                      !.me = cwa[c], !.pc = "r_profile"]]
    /\ UNCHANGED <<storeVars, cwa, currentUserProfile, walletCacheVars,
                   postsCacheVars, total0, comments, busVars>>

\* await select('*').eq('wallet_address', ...).single(): an error other
\* than PGRST116 ends the fetch with a message; a row is stored with
\* setCurrentUserProfile(data); no row leads to the insert
ProfileSelect(a) ==
    /\ att[a].kind = "profile" /\ att[a].pc = "r_profile"
    /\ LET r == att[a]
           x == r.me
       IN \E ok \in BOOLEAN :
            IF ~ok
            THEN /\ att' = [att EXCEPT ![a] = Failed(r, "r_profile")]
                 /\ UNCHANGED currentUserProfile
            ELSE IF profiles[x].exists
            THEN /\ att' = [att EXCEPT ![a] = Ended(r, "done", "none", "none")]
                 /\ currentUserProfile' =
                       [currentUserProfile EXCEPT ![r.client] = ProfileData(x)]
            ELSE /\ att' = [att EXCEPT ![a] = [r EXCEPT !.pc = "w_profile"]]
                 /\ UNCHANGED currentUserProfile
    /\ UNCHANGED <<storeVars, cwa, walletCacheVars, postsCacheVars, total0,
                   comments, busVars>>

\* an insert that replaces the row of the address when there is one
ProfileInsertReplaces(row, x) == TRUE

\* whether the store accepts the insert of a row for address x: not when
\* the address has a row (primary key)
ProfileInsertAccepted(row, x) == ~row.exists

\* await supabase.from('profiles').insert({ wallet_address, username:
\* defaultUsername, bio, followers: [], following: [], tickets_earned: 0,
\* blocked_users: [] }): on insertError a message, otherwise
\* setCurrentUserProfile of the same record
ProfileInsert(a) ==
    /\ att[a].kind = "profile" /\ att[a].pc = "w_profile"
    /\ LET r == att[a]
           x == r.me
       IN \E ok \in BOOLEAN :
            IF ok /\ ProfileInsertAccepted(profiles[x], x)
            THEN /\ profiles' = [profiles EXCEPT ![x] = DefaultProfileRow(x)]
                 /\ currentUserProfile' =
                       [currentUserProfile EXCEPT ![r.client] =
                           [wallet_address |-> x, following |-> <<>>]]
                 /\ att' = [att EXCEPT ![a] =
                              Ended([r EXCEPT !.writes = @ + 1], "done", "none", "none")]
            ELSE /\ att' = [att EXCEPT ![a] = Failed(r, "w_profile")]
                 /\ UNCHANGED <<profiles, currentUserProfile>>
    /\ UNCHANGED <<wallets, posts, notifications, cwa, walletCacheVars,
                   postsCacheVars, total0, comments, busVars>>

\* ---------------------------------------------------- handleFollowToggle
\* isFollowing as the profile page passes it:
\* currentUserProfile?.following?.includes(profileViewAddress)
IsFollowing(c, target) == Includes(currentUserProfile[c].following, target)

\* the follow branch that leaves the array as it is
FollowUpdatedListNoPush(list, x, isFollowing) ==
    IF isFollowing THEN FilterOut(list, x) ELSE list

\* filter(addr => addr !== x) when unfollowing, push(x) when following
FollowUpdatedList(list, x, isFollowing) ==
    IF isFollowing THEN FilterOut(list, x) ELSE Append(list, x)

\* !isFollowing && targetAddress !== currentWalletAddress
FollowNotifyDue(r) == ~r.flag /\ r.target # r.me

\* handleFollowToggle up to its first await (the update of following).  The
\* push is made on the array held by currentUserProfile itself.
FollowStart(c, target) ==
    /\ \E a \in Slots :
         /\ StartSlot(a)
         /\ LET f == IsFollowing(c, target)
                r == [IdleAtt EXCEPT !.kind = "follow", !.client = c, !.me = cwa[c],
                                     !.target = target, !.flag = f,
                                     !.solo = \A b \in Slots : ~InFlight(b)]
                m == FollowUpdatedList(currentUserProfile[c].following, target, f)
            IN IF currentUserProfile[c] = NoProfile
               THEN /\ att' = [att EXCEPT ![a] = Aborted(r, "connect")]
                    /\ UNCHANGED currentUserProfile
               ELSE IF cwa[c] = target
               THEN /\ att' = [att EXCEPT ![a] = Aborted(r, "self")]
                    /\ UNCHANGED currentUserProfile
               ELSE /\ att' = [att EXCEPT ![a] = [r EXCEPT !.pc = "w_following", !.list = m]]
                    /\ currentUserProfile' =
                          IF f THEN currentUserProfile
                          ELSE [currentUserProfile EXCEPT ![c].following = m]
    /\ UNCHANGED <<storeVars, cwa, walletCacheVars, postsCacheVars, total0, comments, busVars>>

\* await supabase.from('profiles').update({following}).eq(currentWalletAddress)
FollowOwnUpdate(a) ==
    /\ att[a].kind = "follow" /\ att[a].pc = "w_following"
    /\ LET r == att[a]
           x == r.me
       IN \E ok \in BOOLEAN :
            IF ok
            THEN /\ profiles' = IF profiles[x].exists
                                THEN [profiles EXCEPT ![x].following = r.list]
                                ELSE profiles
                 /\ att' = [att EXCEPT ![a] =
                              [r EXCEPT !.pc = "r_followers", !.list = <<>>,
                                        !.writes = @ + (IF profiles[x].exists THEN 1 ELSE 0)]]
            ELSE /\ att' = [att EXCEPT ![a] = Failed(r, "w_following")]
                 /\ UNCHANGED profiles
    /\ UNCHANGED <<wallets, posts, notifications, cwa, currentUserProfile,
                   walletCacheVars, postsCacheVars, total0, comments, busVars>>

\* await supabase.from('profiles').select('followers').eq(target).single(),
\* then the filter / push on the followers read
FollowTargetFetch(a) ==
    /\ att[a].kind = "follow" /\ att[a].pc = "r_followers"
    /\ LET r == att[a]
       IN \E ok \in BOOLEAN :
            att' = [att EXCEPT ![a] =
                      IF ok /\ profiles[r.target].exists
                      THEN [r EXCEPT !.pc = "w_followers",
                                     !.list = FollowUpdatedList(profiles[r.target].followers,
                                                                r.me, r.flag)]
                      ELSE Failed(r, "r_followers")]
    /\ UNCHANGED <<storeVars, cwa, currentUserProfile, walletCacheVars,
                   postsCacheVars, total0, comments, busVars>>

\* await supabase.from('profiles').update({followers}).eq(target), then the
\* success message
FollowTargetUpdate(a) ==
    /\ att[a].kind = "follow" /\ att[a].pc = "w_followers"
    /\ LET r == att[a]
           y == r.target
       IN \E ok \in BOOLEAN :
            IF ok
            THEN /\ profiles' = [profiles EXCEPT ![y].followers = r.list]
                 /\ att' = [att EXCEPT ![a] =
                              IF FollowNotifyDue(r)
                              THEN [r EXCEPT !.pc = "notify", !.writes = @ + 1,
                                             !.list = <<>>, !.shown = "success"]
                              ELSE Ended([r EXCEPT !.writes = @ + 1],
                                         "done", "none", "success")]
            ELSE /\ att' = [att EXCEPT ![a] = Failed(r, "w_followers")]
                 /\ UNCHANGED profiles
    /\ UNCHANGED <<wallets, posts, notifications, cwa, currentUserProfile,
                   walletCacheVars, postsCacheVars, total0, comments, busVars>>

\* the insert of the follow notification with "if (error) throw error"
FollowNotifyThrows(a) ==
    /\ att[a].kind = "follow" /\ att[a].pc = "notify"
    /\ LET r == att[a]
       IN \E ok \in BOOLEAN :
            IF ok
            THEN /\ notifications' = Append(notifications,
                        [recipient_address |-> r.target, sender_address |-> r.me,
                         type |-> "follow", read |-> FALSE])
                 /\ att' = [att EXCEPT ![a] =
                              Ended([r EXCEPT !.notified = TRUE], "done", "none", "success")]
            ELSE /\ att' = [att EXCEPT ![a] = Failed(r, "notify")]
                 /\ UNCHANGED notifications
    /\ UNCHANGED <<wallets, profiles, posts, cwa, currentUserProfile,
                   walletCacheVars, postsCacheVars, total0, comments, busVars>>

\* await supabase.from('notifications').insert({... type: 'follow' ...}); the
\* returned error is not looked at
FollowNotify(a) ==
    /\ att[a].kind = "follow" /\ att[a].pc = "notify"
    /\ LET r == att[a]
       IN \E ok \in BOOLEAN :
            IF ok
            THEN /\ notifications' = Append(notifications,
                        [recipient_address |-> r.target, sender_address |-> r.me,
                         type |-> "follow", read |-> FALSE])
                 /\ att' = [att EXCEPT ![a] =
                              Ended([r EXCEPT !.notified = TRUE], "done", "none", "success")]
            ELSE /\ att' = [att EXCEPT ![a] = Ended(r, "done", "none", "success")]
                 /\ UNCHANGED notifications
    /\ UNCHANGED <<wallets, profiles, posts, cwa, currentUserProfile,
                   walletCacheVars, postsCacheVars, total0, comments, busVars>>

\* --------------------------------------------------------- handleComment
\* onComment(post.id, text) on a post the client displays, up to the first
\* await (the select of author_address, comments_count)
CommentStart(c, p) ==
    /\ p \in DOMAIN postsCache[c]
    /\ \E a \in Slots :
         /\ StartSlot(a)
         /\ LET r == [IdleAtt EXCEPT !.kind = "comment", !.client = c, !.me = cwa[c],
                                     !.post = p]
            IN att' = [att EXCEPT ![a] =
                         IF currentUserProfile[c] = NoProfile
                         THEN Aborted(r, "connect")
                         ELSE [r EXCEPT !.pc = "r_post"]]
    /\ UNCHANGED <<storeVars, cwa, currentUserProfile, walletCacheVars,
                   postsCacheVars, total0, comments, busVars>>

\* await supabase.from('posts').select('author_address, comments_count')
\* .eq(id).single()
CommentFetch(a) ==
    /\ att[a].kind = "comment" /\ att[a].pc = "r_post"
    /\ LET r == att[a]
           row == posts[r.post]
       IN \E ok \in BOOLEAN :
            att' = [att EXCEPT ![a] =
                      IF ok THEN [r EXCEPT !.pc = "w_comment",
                                           !.target = row.author_address,
                                           !.num = row.comments_count]
                      ELSE Failed(r, "r_post")]
    /\ UNCHANGED <<storeVars, cwa, currentUserProfile, walletCacheVars,
                   postsCacheVars, total0, comments, busVars>>

\* await supabase.from('comments').insert({...})
CommentInsert(a) ==
    /\ att[a].kind = "comment" /\ att[a].pc = "w_comment"
    /\ LET r == att[a]
       IN \E ok \in BOOLEAN :
            IF ok
            THEN /\ comments' = Append(comments,
                                       [post_id |-> r.post, author_address |-> r.me])
                 /\ att' = [att EXCEPT ![a] =
                              [r EXCEPT !.pc = "w_count", !.writes = @ + 1]]
            ELSE /\ att' = [att EXCEPT ![a] = Failed(r, "w_comment")]
                 /\ UNCHANGED comments
    /\ UNCHANGED <<storeVars, cwa, currentUserProfile, walletCacheVars,
                   postsCacheVars, total0, busVars>>

\* the notification made for the author's own comment too
CommentNotifyDueAlways(r) == TRUE

\* postData.author_address !== currentWalletAddress
CommentNotifyDue(r) == r.target # r.me

\* await supabase.from('posts').update({comments_count: ... + 1}).eq(id),
\* whose error is not looked at, then the success message
CommentCountUpdate(a) ==
    /\ att[a].kind = "comment" /\ att[a].pc = "w_count"
    /\ LET r == att[a]
           n == IF CommentNotifyDue(r)
                THEN [r EXCEPT !.pc = "notify", !.shown = "success"]
                ELSE Ended(r, "done", "none", "success")
       IN \E ok \in BOOLEAN :
            IF ok
            THEN /\ posts' = [posts EXCEPT ![r.post].comments_count = r.num + 1]
                 /\ postsFeed' = PostsChanged(postsFeed)
                 /\ att' = [att EXCEPT ![a] = [n EXCEPT !.writes = @ + 1]]
            ELSE /\ att' = [att EXCEPT ![a] = n]
                 /\ UNCHANGED <<posts, postsFeed>>
    /\ UNCHANGED <<wallets, profiles, notifications, cwa, currentUserProfile,
                   walletCacheVars, postsCache, total0, comments, busVars>>

\* await supabase.from('notifications').insert({... type: 'comment' ...});
\* the returned error is not looked at
CommentNotify(a) ==
    /\ att[a].kind = "comment" /\ att[a].pc = "notify"
    /\ LET r == att[a]
       IN \E ok \in BOOLEAN :
            IF ok
            THEN /\ notifications' = Append(notifications,
                        [recipient_address |-> r.target, sender_address |-> r.me,
                         type |-> "comment", read |-> FALSE])
                 /\ att' = [att EXCEPT ![a] =
                              Ended([r EXCEPT !.notified = TRUE], "done", "none", "success")]
            ELSE /\ att' = [att EXCEPT ![a] = Ended(r, "done", "none", "success")]
                 /\ UNCHANGED notifications
    /\ UNCHANGED <<wallets, profiles, posts, cwa, currentUserProfile,
                   walletCacheVars, postsCacheVars, total0, comments, busVars>>

\* ------------------------------------------- the effects and their feeds
\* the value cwa has for a client whose App component has been unmounted
Unmounted == "unmounted"

\* cleanups that release nothing
CloseFeedsNone(list, feeds) == list

\* the cleanups of effects: supabase.removeSubscription(subscription) for
\* each of the feeds, which takes that subscription out of the open ones
RECURSIVE CloseFeeds(_, _)
CloseFeeds(list, feeds) ==
    IF feeds = <<>> THEN list
    ELSE LET i == IF Includes(list, Head(feeds))
                  THEN CHOOSE j \in DOMAIN list :
                          /\ list[j] = Head(feeds)
                          /\ \A k \in DOMAIN list : list[k] = Head(feeds) => j <= k
                  ELSE 0
         IN CloseFeeds(IF i = 0 THEN list ELSE RemoveAt(list, i), Tail(feeds))

\* publicKey changes (another wallet is connected, or the wallet is
\* disconnected: y = NoAddress): the three effects that depend on
\* currentWalletAddress run their cleanup and then their body again, which
\* returns early without an address and otherwise opens the feed and calls
\* its fetch.  currentUserProfile and walletData keep what they held.
WalletChange(c, y) ==
    /\ cwa[c] # Unmounted /\ y # cwa[c]
    /\ cwa' = [cwa EXCEPT ![c] = y]
    /\ subs' = [subs EXCEPT ![c] = CloseFeeds(@, AddressFeeds(cwa[c])) \o AddressFeeds(y)]
    /\ walletFeed' = [walletFeed EXCEPT ![c] = y # NoAddress]
    /\ UNCHANGED <<storeVars, currentUserProfile, walletData, walletVer,
                   postsCacheVars, att, total0, comments, postsReply>>

\* the App component is unmounted: every effect runs its cleanup; change
\* events reach the client no more
Unmount(c) ==
    /\ cwa[c] # Unmounted
    /\ cwa' = [cwa EXCEPT ![c] = Unmounted]
    /\ subs' = [subs EXCEPT ![c] = CloseFeeds(@, MountedFeeds(cwa[c]))]
    /\ walletFeed' = [walletFeed EXCEPT ![c] = FALSE]
    /\ postsFeed' = [postsFeed EXCEPT ![c] = FALSE]
    /\ UNCHANGED <<storeVars, currentUserProfile, walletData, walletVer,
                   postsCache, att, total0, comments, postsReply>>

\* ------------------------------------------- fetchPosts, answer in flight
\* Where posts are created the table is kept in insertion order and the id
\* of a post is its place in it.
\* select('*').order('created_at', { ascending: false }): every row, the
\* newest first; of a row its id and its author_address are kept
PostsSelect ==
    [i \in 1..Len(posts) |->
        [id |-> Len(posts) + 1 - i,
         author_address |-> posts[Len(posts) + 1 - i].author_address]]

\* fetchPosts up to its await: the select is sent and the mirror store
\* answers it with the rows it holds now, or with an error.  The answer is
\* on its way (back = FALSE) until FetchPostsReturn.
FetchPostsRequest(c) ==
    /\ postsFeed[c]
    /\ \E ok \in BOOLEAN :
         postsReply' = [postsReply EXCEPT ![c] =
                          Append(@, [ok |-> ok, back |-> FALSE,
                                     data |-> IF ok THEN PostsSelect ELSE <<>>])]
    /\ postsFeed' = [postsFeed EXCEPT ![c] = FALSE]
    /\ UNCHANGED <<storeVars, cwa, currentUserProfile, walletCacheVars, att,
                   postsCache, total0, comments, subs>>

\* a state setter that keeps the rows it held after the rows it is given
SetPostsMerged(old, data) == data \o old

\* setPosts(data)
SetPosts(old, data) == data

\* fetchPosts after its await, for any of the answers on their way: answers
\* to different calls arrive in any order.  if (error) showMessage(...)
\* else setPosts(data)
FetchPostsReturn(c, i) ==
    /\ i \in DOMAIN postsReply[c]
    /\ ~postsReply[c][i].back
    /\ postsReply' = [postsReply EXCEPT ![c][i].back = TRUE]
    /\ postsCache' = IF postsReply[c][i].ok
                     THEN [postsCache EXCEPT ![c] = SetPosts(@, postsReply[c][i].data)]
                     ELSE postsCache
    /\ UNCHANGED <<storeVars, cwa, currentUserProfile, walletCacheVars, att,
                   postsFeed, total0, comments, subs>>

\* ------------------------------------------------------------ handlePost
\* the guards of handlePost, in source order; "ok" when all pass
PostPrecheck(c, empty) ==
    IF empty THEN "empty"
    ELSE IF cwa[c] = NoAddress \/ currentUserProfile[c] = NoProfile THEN "connect"
    ELSE "ok"

\* handlePost, without an image, up to its await (the insert); empty says
\* that newPostContent.trim() is empty
PostStart(c, empty) ==
    /\ \E a \in Slots :
         /\ StartSlot(a)
         /\ LET r == [IdleAtt EXCEPT !.kind = "post", !.client = c, !.me = cwa[c]]
                v == PostPrecheck(c, empty)
            IN att' = [att EXCEPT ![a] =
                         IF v = "ok" THEN [r EXCEPT !.pc = "w_post"]
                         ELSE Aborted(r, v)]
    /\ UNCHANGED <<storeVars, cwa, currentUserProfile, walletCacheVars,
                   postsCacheVars, total0, comments, busVars>>

\* await supabase.from('posts').insert({ author_address, ..., likes: [],
\* reposts: [], likes_count: 0, reposts_count: 0, comments_count: 0 }); the
\* posts state of the client is not touched
PostInsert(a) ==
    /\ att[a].kind = "post" /\ att[a].pc = "w_post"
    /\ LET r == att[a]
       IN \E ok \in BOOLEAN :
            IF ok
            THEN /\ posts' = Append(posts,
                        [author_address |-> r.me, likes |-> <<>>, reposts |-> <<>>,
                         likes_count |-> 0, reposts_count |-> 0, comments_count |-> 0])
                 /\ postsFeed' = PostsChanged(postsFeed)
                 /\ att' = [att EXCEPT ![a] =
                              Ended([r EXCEPT !.writes = @ + 1], "done", "none", "success")]
            ELSE /\ att' = [att EXCEPT ![a] = Failed(r, "w_post")]
                 /\ UNCHANGED <<posts, postsFeed>>
    /\ UNCHANGED <<wallets, profiles, notifications, cwa, currentUserProfile,
                   walletCacheVars, postsCache, total0, comments, subs, postsReply>>

\* -------------------------------------------- handleMarkNotificationRead
\* handleMarkNotificationRead(notificationId) up to its await (the update);
\* it returns at once without a connected address.  The id of a
\* notification is its place in the table.
MarkReadStart(c, id) ==
    /\ \E a \in Slots :
         /\ StartSlot(a)
         /\ LET r == [IdleAtt EXCEPT !.kind = "read", !.client = c, !.me = cwa[c],
                                     !.num = id]
            IN att' = [att EXCEPT ![a] =
                         IF cwa[c] = NoAddress
                         THEN Ended(r, "aborted", "connect", "none")
                         ELSE [r EXCEPT !.pc = "w_read"]]
    /\ UNCHANGED <<storeVars, cwa, currentUserProfile, walletCacheVars,
                   postsCacheVars, total0, comments, busVars>>

\* the rows an update filtered by the id alone would change
MarkReadMatchesAnyRecipient(i, id, me) == i = id

\* .eq('id', notificationId).eq('recipient_address', currentWalletAddress)
MarkReadMatches(i, id, me) ==
    i = id /\ notifications[i].recipient_address = me

\* await supabase.from('notifications').update({ read: true }).eq(...).eq(...);
\* an error is thrown to the catch block, which logs it.  The ended call
\* keeps in num the id it was made for.
MarkReadUpdate(a) ==
    /\ att[a].kind = "read" /\ att[a].pc = "w_read"
    /\ LET r == att[a]
           hit == {i \in DOMAIN notifications : MarkReadMatches(i, r.num, r.me)}
       IN \E ok \in BOOLEAN :
            IF ok
            THEN /\ notifications' =
                       [i \in DOMAIN notifications |->
                          IF i \in hit THEN [notifications[i] EXCEPT !.read = TRUE]
                          ELSE notifications[i]]
                 /\ att' = [att EXCEPT ![a] =
                              [r EXCEPT !.pc = "done",
                                        !.writes = @ + Cardinality(hit)]]
            ELSE /\ att' = [att EXCEPT ![a] =
                              [r EXCEPT !.pc = "failed", !.reason = "w_read"]]
                 /\ UNCHANGED notifications
    /\ UNCHANGED <<wallets, profiles, posts, cwa, currentUserProfile,
                   walletCacheVars, postsCacheVars, total0, comments, busVars>>

\* ------------------------------------------------------------ initial state
\* the profile row a client has loaded into currentUserProfile
LoadedProfile(x) == [wallet_address |-> x]

\* a post as initializeDummyData inserts it: nobody has liked or reposted
NewPost(x) ==
    [author_address |-> x, likes |-> <<>>, reposts |-> <<>>,
     likes_count |-> 0, reposts_count |-> 0]

\* posts by any of the addresses
InitPosts == posts \in [PostIds -> {NewPost(x) : x \in Addr}]

\* What every client instance starts from: the profile of the connected
\* address loaded (the handlers refuse to run before), walletData and posts
\* at their useState defaults with the mount effects about to run their first
\* fetch, no handler invoked yet.
InitClients ==
    /\ cwa = [c \in Clients |-> IF c = "c1" THEN "A" ELSE "B"]
    /\ currentUserProfile = [c \in Clients |-> LoadedProfile(cwa[c])]
    /\ walletData = [c \in Clients |-> DefaultWalletData]
    /\ walletVer = [c \in Clients |-> 0]
    /\ walletFeed = [c \in Clients |-> TRUE]
    /\ postsCache = [c \in Clients |-> <<>>]
    /\ postsFeed = [c \in Clients |-> TRUE]
    /\ subs = [c \in Clients |-> MountedFeeds(cwa[c])]
    /\ postsReply = [c \in Clients |-> <<>>]
    /\ att = [a \in Slots |-> IdleAtt]

\* Tipping: wallets funded with any balance up to MaxInitBal, or not yet
\* created; nobody holds a ticket.
InitTip ==
    /\ wallets \in [Addr -> {NoWallet} \cup
                            {[exists |-> TRUE, gor_balance |-> b, tickets_holding |-> <<>>] :
                               b \in 0..MaxInitBal}]
    /\ profiles = [x \in Addr |-> [exists |-> TRUE, tickets_earned |-> 0]]
    /\ posts = [p \in PostIds |-> NewPost("A")]
    /\ notifications = <<>>
    /\ comments = <<>>
    /\ InitClients
    /\ total0 = TotalBalance

NextTip ==
    \/ \E c \in Clients : FetchWalletData(c)
    \/ \E c \in Clients, target \in Addr, amount \in Amounts : TipStart(c, target, amount)
    \/ \E a \in Slots : TipBlockhash(a)
    \/ \E a \in Slots : TipSend(a)
    \/ \E a \in Slots : TipConfirm(a)
    \/ \E a \in Slots : TipSenderUpdate(a)
    \/ \E a \in Slots : TipReceiverFetch(a)
    \/ \E a \in Slots : TipReceiverUpsert(a)
    \/ \E a \in Slots : TipNotify(a)

SpecTip == InitTip /\ [][NextTip]_vars



\* Tickets: as InitTip, and each funded wallet may hold one ticket of the
\* other address, counted in that address's tickets_earned.
HoldingChoices(x) ==
    {<<>>} \cup {<<[wallet_address |-> y, count |-> 1]>> : y \in Addr \ {x}}

RECURSIVE SumHeld(_, _, _)
SumHeld(w, y, S) ==
    IF S = {} THEN 0
    ELSE LET x == CHOOSE z \in S : TRUE
         IN HoldingCount(w[x].tickets_holding, y) + SumHeld(w, y, S \ {x})

InitTicket ==
    /\ wallets \in [Addr -> {NoWallet} \cup
                            {[exists |-> TRUE, gor_balance |-> b, tickets_holding |-> h] :
                               b \in 0..MaxInitBal, h \in UNION {HoldingChoices(x) : x \in Addr}}]
    /\ \A x \in Addr : wallets[x].tickets_holding \in HoldingChoices(x)
    /\ profiles = [y \in Addr |-> [exists |-> TRUE,
                                   tickets_earned |-> SumHeld(wallets, y, Addr)]]
    /\ posts = [p \in PostIds |-> NewPost("A")]
    /\ notifications = <<>>
    /\ comments = <<>>
    /\ InitClients
    /\ total0 = TotalBalance

TicketSteps ==
    \/ \E a \in Slots : BuyBlockhash(a)
    \/ \E a \in Slots : BuySend(a)
    \/ \E a \in Slots : BuyConfirm(a)
    \/ \E a \in Slots : BuyTargetUsername(a)
    \/ \E a \in Slots : BuyWalletUpdate(a)
    \/ \E a \in Slots : BuyTargetFetch(a)
    \/ \E a \in Slots : BuyProfileUpdate(a)
    \/ \E a \in Slots : BuyNotify(a)
    \/ \E a \in Slots : SellWalletUpdate(a)
    \/ \E a \in Slots : SellTargetFetch(a)
    \/ \E a \in Slots : SellProfileUpdate(a)

NextTicket ==
    \/ \E c \in Clients : FetchWalletData(c)
    \/ \E c \in Clients, target \in Addr : BuyStart(c, target)
    \/ \E c \in Clients, target \in Addr : SellStart(c, target)
    \/ TicketSteps

SpecTicket == InitTicket /\ [][NextTicket]_vars

\* Post side effects: the wallets play no part and are left uncreated.
InitPostsSpec ==
    /\ wallets = [x \in Addr |-> NoWallet]
    /\ profiles = [x \in Addr |-> [exists |-> TRUE, tickets_earned |-> 0]]
    /\ InitPosts
    /\ notifications = <<>>
    /\ comments = <<>>
    /\ InitClients
    /\ total0 = TotalBalance

NextPosts ==
    \/ \E c \in Clients : FetchPosts(c)
    \/ \E c \in Clients, p \in PostIds : LikeStart(c, p)
    \/ \E a \in Slots : LikeFetch(a)
    \/ \E a \in Slots : LikeUpdate(a)
    \/ \E c \in Clients, p \in PostIds : RepostStart(c, p)
    \/ \E a \in Slots : RepostFetch(a)
    \/ \E a \in Slots : RepostUpdate(a)
    \/ \E a \in Slots : RepostNotify(a)

SpecPosts == InitPostsSpec /\ [][NextPosts]_vars

\* Settlements with a ledger transfer (tip, buyTicket), every handler invoked
\* on client c1, at most MaxOne invocations.
Started == Cardinality({a \in Slots : att[a].pc # "idle"})

NextSettleOne ==
    \/ \E c \in Clients : FetchWalletData(c)
    \/ \E target \in Addr, amount \in Amounts :
          Started < MaxOne /\ TipStart("c1", target, amount)
    \/ \E target \in Addr : Started < MaxOne /\ BuyStart("c1", target)
    \/ \E a \in Slots : TipBlockhash(a)
    \/ \E a \in Slots : TipSend(a)
    \/ \E a \in Slots : TipConfirm(a)
    \/ \E a \in Slots : TipSenderUpdate(a)
    \/ \E a \in Slots : TipReceiverFetch(a)
    \/ \E a \in Slots : TipReceiverUpsert(a)
    \/ \E a \in Slots : TipNotify(a)
    \/ \E a \in Slots : BuyBlockhash(a)
    \/ \E a \in Slots : BuySend(a)
    \/ \E a \in Slots : BuyConfirm(a)
    \/ \E a \in Slots : BuyTargetUsername(a)
    \/ \E a \in Slots : BuyWalletUpdate(a)
    \/ \E a \in Slots : BuyTargetFetch(a)
    \/ \E a \in Slots : BuyProfileUpdate(a)
    \/ \E a \in Slots : BuyNotify(a)

SpecSettleOne == InitTicket /\ [][NextSettleOne]_vars

\* ------------------------------------------- notifying actions, follows
\* a post row with its comments counter
CountedPost(x) ==
    [author_address |-> x, likes |-> <<>>, reposts |-> <<>>,
     likes_count |-> 0, reposts_count |-> 0, comments_count |-> 0]

\* As InitClients, with the following column of the loaded profile row kept
\* in currentUserProfile.
InitClientsProfiled ==
    /\ cwa = [c \in Clients |-> IF c = "c1" THEN "A" ELSE "B"]
    /\ currentUserProfile = [c \in Clients |-> ProfileData(cwa[c])]
    /\ walletData = [c \in Clients |-> DefaultWalletData]
    /\ walletVer = [c \in Clients |-> 0]
    /\ walletFeed = [c \in Clients |-> TRUE]
    /\ postsCache = [c \in Clients |-> <<>>]
    /\ postsFeed = [c \in Clients |-> TRUE]
    /\ subs = [c \in Clients |-> MountedFeeds(cwa[c])]
    /\ postsReply = [c \in Clients |-> <<>>]
    /\ att = [a \in Slots |-> IdleAtt]

\* The five actions that notify, every handler invoked on client c1, at
\* most MaxOne invocations: funded wallets, nobody follows anybody, posts by
\* any of the addresses.
InitNotify ==
    /\ wallets = [x \in Addr |-> [exists |-> TRUE, gor_balance |-> MaxInitBal,
                                  tickets_holding |-> <<>>]]
    /\ profiles = [x \in Addr |-> [exists |-> TRUE, tickets_earned |-> 0,
                                   following |-> <<>>, followers |-> <<>>]]
    /\ posts \in [PostIds -> {CountedPost(x) : x \in Addr}]
    /\ notifications = <<>>
    /\ comments = <<>>
    /\ InitClientsProfiled
    /\ total0 = TotalBalance

NextNotify ==
    \/ FetchWalletData("c1")
    \/ FetchPosts("c1")
    \/ FetchCurrentUserProfile("c1")
    \/ \E target \in Addr, amount \in Amounts :
          Started < MaxOne /\ TipStart("c1", target, amount)
    \/ \E target \in Addr : Started < MaxOne /\ BuyStart("c1", target)
    \/ \E target \in Addr : Started < MaxOne /\ FollowStart("c1", target)
    \/ \E p \in PostIds : Started < MaxOne /\ CommentStart("c1", p)
    \/ \E p \in PostIds : Started < MaxOne /\ RepostStart("c1", p)
    \/ \E a \in Slots : TipBlockhash(a)
    \/ \E a \in Slots : TipSend(a)
    \/ \E a \in Slots : TipConfirm(a)
    \/ \E a \in Slots : TipSenderUpdate(a)
    \/ \E a \in Slots : TipReceiverFetch(a)
    \/ \E a \in Slots : TipReceiverUpsert(a)
    \/ \E a \in Slots : TipNotify(a)
    \/ \E a \in Slots : BuyBlockhash(a)
    \/ \E a \in Slots : BuySend(a)
    \/ \E a \in Slots : BuyConfirm(a)
    \/ \E a \in Slots : BuyTargetUsername(a)
    \/ \E a \in Slots : BuyWalletUpdate(a)
    \/ \E a \in Slots : BuyTargetFetch(a)
    \/ \E a \in Slots : BuyProfileUpdate(a)
    \/ \E a \in Slots : BuyNotify(a)
    \/ \E a \in Slots : FollowOwnUpdate(a)
    \/ \E a \in Slots : FollowTargetFetch(a)
    \/ \E a \in Slots : FollowTargetUpdate(a)
    \/ \E a \in Slots : FollowNotify(a)
    \/ \E a \in Slots : CommentFetch(a)
    \/ \E a \in Slots : CommentInsert(a)
    \/ \E a \in Slots : CommentCountUpdate(a)
    \/ \E a \in Slots : CommentNotify(a)
    \/ \E a \in Slots : RepostFetch(a)
    \/ \E a \in Slots : RepostUpdate(a)
    \/ \E a \in Slots : RepostNotify(a)

SpecNotify == InitNotify /\ [][NextNotify]_vars

\* Follows: each address follows the other one or not, the followers
\* columns agreeing with the following columns.
FollowChoices(x) == {<<>>} \cup {<<y>> : y \in Addr \ {x}}

InitFollow ==
    /\ wallets = [x \in Addr |-> NoWallet]
    /\ \E f \in [Addr -> UNION {FollowChoices(x) : x \in Addr}] :
          /\ \A x \in Addr : f[x] \in FollowChoices(x)
          /\ profiles = [x \in Addr |->
                [exists |-> TRUE, tickets_earned |-> 0, following |-> f[x],
                 followers |-> IF \E y \in Addr : Includes(f[y], x)
                               THEN <<CHOOSE y \in Addr : Includes(f[y], x)>>
                               ELSE <<>>]]
    /\ posts = [p \in PostIds |-> NewPost("A")]
    /\ notifications = <<>>
    /\ comments = <<>>
    /\ InitClientsProfiled
    /\ total0 = TotalBalance

NextFollow ==
    \/ \E c \in Clients : FetchCurrentUserProfile(c)
    \/ \E c \in Clients, target \in Addr : FollowStart(c, target)
    \/ \E a \in Slots : FollowOwnUpdate(a)
    \/ \E a \in Slots : FollowTargetFetch(a)
    \/ \E a \in Slots : FollowTargetUpdate(a)
    \/ \E a \in Slots : FollowNotify(a)

SpecFollow == InitFollow /\ [][NextFollow]_vars

\* ------------------------------------- settlements of one client's wallet
\* Tips, ticket buys and ticket sales, every handler invoked on client c1
\* (address A) for the other address: A's wallet funded with MaxInitBal and
\* holding a ticket of B or not, B's wallet not yet created.
InitWalletOne ==
    /\ \E h \in HoldingChoices("A") :
          wallets = [x \in Addr |->
                        IF x = "A"
                        THEN [exists |-> TRUE, gor_balance |-> MaxInitBal,
                              tickets_holding |-> h]
                        ELSE NoWallet]
    /\ profiles = [y \in Addr |-> [exists |-> TRUE,
                                   tickets_earned |-> SumHeld(wallets, y, Addr)]]
    /\ posts = [p \in PostIds |-> NewPost("A")]
    /\ notifications = <<>>
    /\ comments = <<>>
    /\ InitClients
    /\ total0 = TotalBalance

NextWalletOne ==
    \/ FetchWalletData("c1")
    \/ \E amount \in 1..MaxAmt : TipStart("c1", "B", amount)
    \/ BuyStart("c1", "B")
    \/ SellStart("c1", "B")
    \/ \E a \in Slots : TipBlockhash(a)
    \/ \E a \in Slots : TipSend(a)
    \/ \E a \in Slots : TipConfirm(a)
    \/ \E a \in Slots : TipSenderUpdate(a)
    \/ \E a \in Slots : TipReceiverFetch(a)
    \/ \E a \in Slots : TipReceiverUpsert(a)
    \/ \E a \in Slots : TipNotify(a)
    \/ \E a \in Slots : BuyBlockhash(a)
    \/ \E a \in Slots : BuySend(a)
    \/ \E a \in Slots : BuyConfirm(a)
    \/ \E a \in Slots : BuyTargetUsername(a)
    \/ \E a \in Slots : BuyWalletUpdate(a)
    \/ \E a \in Slots : BuyTargetFetch(a)
    \/ \E a \in Slots : BuyProfileUpdate(a)
    \/ \E a \in Slots : BuyNotify(a)
    \/ \E a \in Slots : SellWalletUpdate(a)
    \/ \E a \in Slots : SellTargetFetch(a)
    \/ \E a \in Slots : SellProfileUpdate(a)

SpecWalletOne == InitWalletOne /\ [][NextWalletOne]_vars

\* the same without tips
NextTicketOne ==
    \/ FetchWalletData("c1")
    \/ BuyStart("c1", "B")
    \/ SellStart("c1", "B")
    \/ \E a \in Slots : BuyBlockhash(a)
    \/ \E a \in Slots : BuySend(a)
    \/ \E a \in Slots : BuyConfirm(a)
    \/ \E a \in Slots : BuyTargetUsername(a)
    \/ \E a \in Slots : BuyWalletUpdate(a)
    \/ \E a \in Slots : BuyTargetFetch(a)
    \/ \E a \in Slots : BuyProfileUpdate(a)
    \/ \E a \in Slots : BuyNotify(a)
    \/ \E a \in Slots : SellWalletUpdate(a)
    \/ \E a \in Slots : SellTargetFetch(a)
    \/ \E a \in Slots : SellProfileUpdate(a)

SpecTicketOne == InitWalletOne /\ [][NextTicketOne]_vars

\* ------------------------------------------- tickets of several addresses
\* the addresses with a profile: those of the clients and one more, whose
\* holder is not connected
Users == Addr \cup {"C"}

\* Ticket buys and sales of client c1 (address A) for the other users: A's
\* wallet funded with MaxInitBal and holding one ticket of one of them or
\* none.
InitHolding ==
    /\ \E h \in {<<>>} \cup {<<[wallet_address |-> y, count |-> 1]>> : y \in Users \ {"A"}} :
          wallets = [x \in Addr |->
                        IF x = "A"
                        THEN [exists |-> TRUE, gor_balance |-> MaxInitBal,
                              tickets_holding |-> h]
                        ELSE NoWallet]
    /\ profiles = [y \in Users |-> [exists |-> TRUE,
                                    tickets_earned |-> SumHeld(wallets, y, Addr)]]
    /\ posts = [p \in PostIds |-> NewPost("A")]
    /\ notifications = <<>>
    /\ comments = <<>>
    /\ InitClients
    /\ total0 = TotalBalance

NextHolding ==
    \/ FetchWalletData("c1")
    \/ \E target \in Users : BuyStart("c1", target)
    \/ \E target \in Users : SellStart("c1", target)
    \/ \E a \in Slots : BuyBlockhash(a)
    \/ \E a \in Slots : BuySend(a)
    \/ \E a \in Slots : BuyConfirm(a)
    \/ \E a \in Slots : BuyTargetUsername(a)
    \/ \E a \in Slots : BuyWalletUpdate(a)
    \/ \E a \in Slots : BuyTargetFetch(a)
    \/ \E a \in Slots : BuyProfileUpdate(a)
    \/ \E a \in Slots : BuyNotify(a)
    \/ \E a \in Slots : SellWalletUpdate(a)
    \/ \E a \in Slots : SellTargetFetch(a)
    \/ \E a \in Slots : SellProfileUpdate(a)

SpecHolding == InitHolding /\ [][NextHolding]_vars

\* ------------------------------------------------------ comments on a post
\* Comments of both clients on the posts: no comment made yet, every
\* comments_count at 0.
InitComments ==
    /\ wallets = [x \in Addr |-> NoWallet]
    /\ profiles = [x \in Addr |-> [exists |-> TRUE, tickets_earned |-> 0]]
    /\ posts \in [PostIds -> {CountedPost(x) : x \in Addr}]
    /\ notifications = <<>>
    /\ comments = <<>>
    /\ InitClients
    /\ total0 = TotalBalance

NextComments ==
    \/ \E c \in Clients : FetchPosts(c)
    \/ \E c \in Clients, p \in PostIds : CommentStart(c, p)
    \/ \E a \in Slots : CommentFetch(a)
    \/ \E a \in Slots : CommentInsert(a)
    \/ \E a \in Slots : CommentCountUpdate(a)
    \/ \E a \in Slots : CommentNotify(a)

SpecComments == InitComments /\ [][NextComments]_vars

\* ------------------------------------------------- reading notifications
\* a follow notification for x from another address, read or not
StoredNotifications(x) ==
    {[recipient_address |-> x, sender_address |-> y, type |-> "follow", read |-> b] :
        y \in Addr \ {x}, b \in BOOLEAN}

\* Follows by client c1 and the reading of notifications by both clients:
\* up to MaxOne notifications recorded before, nobody follows anybody.
InitRead ==
    /\ wallets = [x \in Addr |-> NoWallet]
    /\ profiles = [x \in Addr |-> [exists |-> TRUE, tickets_earned |-> 0,
                                   following |-> <<>>, followers |-> <<>>]]
    /\ posts = [p \in PostIds |-> NewPost("A")]
    /\ notifications \in UNION {[1..k -> UNION {StoredNotifications(x) : x \in Addr}] :
                                  k \in 0..MaxOne}
    /\ comments = <<>>
    /\ InitClientsProfiled
    /\ total0 = TotalBalance

NextRead ==
    \/ \E target \in Addr : FollowStart("c1", target)
    \/ \E a \in Slots : FollowOwnUpdate(a)
    \/ \E a \in Slots : FollowTargetFetch(a)
    \/ \E a \in Slots : FollowTargetUpdate(a)
    \/ \E a \in Slots : FollowNotify(a)
    \/ \E c \in Clients, id \in 1..MaxAtt : MarkReadStart(c, id)
    \/ \E a \in Slots : MarkReadUpdate(a)

SpecRead == InitRead /\ [][NextRead]_vars

\* ------------------------------------------------------- posts and caches
\* Posts created by both clients and the refetches their change events
\* cause: the table starts with the posts inserted before, at most MaxOne.
InitSync ==
    /\ wallets = [x \in Addr |-> NoWallet]
    /\ profiles = [x \in Addr |-> [exists |-> TRUE, tickets_earned |-> 0]]
    /\ posts \in UNION {[1..k -> {CountedPost(x) : x \in Addr}] : k \in 0..MaxOne}
    /\ notifications = <<>>
    /\ comments = <<>>
    /\ InitClients
    /\ total0 = TotalBalance

NextSync ==
    \/ \E c \in Clients : FetchPostsRequest(c)
    \/ \E c \in Clients, i \in 1..(MaxAtt + 1) : FetchPostsReturn(c, i)
    \/ \E c \in Clients, empty \in BOOLEAN : PostStart(c, empty)
    \/ \E a \in Slots : PostInsert(a)

SpecSync == InitSync /\ [][NextSync]_vars

\* the same with client c1 alone creating posts and refetching
NextSyncOne ==
    \/ FetchPostsRequest("c1")
    \/ \E i \in 1..(MaxAtt + 1) : FetchPostsReturn("c1", i)
    \/ \E empty \in BOOLEAN : PostStart("c1", empty)
    \/ \E a \in Slots : PostInsert(a)

SpecSyncOne == InitSync /\ [][NextSyncOne]_vars

\* ------------------------------------------------ wallets that come and go
\* Clients whose wallet is connected, changed and disconnected, and that
\* are unmounted, while the posts and the wallet rows are fetched (the
\* wallet rows created by the first fetch): no wallet connected at first
\* (publicKey is null when the component mounts), no wallet row yet.
InitFeeds ==
    /\ wallets = [x \in Addr |-> NoWallet]
    /\ profiles = [x \in Addr |-> [exists |-> TRUE, tickets_earned |-> 0]]
    /\ posts = <<>>
    /\ notifications = <<>>
    /\ comments = <<>>
    /\ cwa = [c \in Clients |-> NoAddress]
    /\ currentUserProfile = [c \in Clients |-> NoProfile]
    /\ walletData = [c \in Clients |-> DefaultWalletData]
    /\ walletVer = [c \in Clients |-> 0]
    /\ walletFeed = [c \in Clients |-> FALSE]
    /\ postsCache = [c \in Clients |-> <<>>]
    /\ postsFeed = [c \in Clients |-> TRUE]
    /\ subs = [c \in Clients |-> MountedFeeds(cwa[c])]
    /\ postsReply = [c \in Clients |-> <<>>]
    /\ att = [a \in Slots |-> IdleAtt]
    /\ total0 = TotalBalance

NextFeeds ==
    \/ \E c \in Clients, y \in Addr \cup {NoAddress} : WalletChange(c, y)
    \/ \E c \in Clients : Unmount(c)
    \/ \E c \in Clients : FetchWalletData(c)
    \/ \E c \in Clients : FetchPosts(c)

SpecFeeds == InitFeeds /\ [][NextFeeds]_vars

\* ------------------------------------------ a client with several handlers
\* the step of handler instance a that its pc awaits, whatever its kind
StepOf(a) ==
    \/ TipBlockhash(a) \/ TipSend(a) \/ TipConfirm(a) \/ TipSenderUpdate(a)
    \/ TipReceiverFetch(a) \/ TipReceiverUpsert(a) \/ TipNotify(a)
    \/ BuyBlockhash(a) \/ BuySend(a) \/ BuyConfirm(a) \/ BuyTargetUsername(a)
    \/ BuyWalletUpdate(a) \/ BuyTargetFetch(a) \/ BuyProfileUpdate(a)
    \/ BuyNotify(a)
    \/ LikeFetch(a) \/ LikeUpdate(a)
    \/ CommentFetch(a) \/ CommentInsert(a) \/ CommentCountUpdate(a)
    \/ CommentNotify(a)
    \/ RepostFetch(a) \/ RepostUpdate(a) \/ RepostNotify(a)
    \/ FollowOwnUpdate(a) \/ FollowTargetFetch(a) \/ FollowTargetUpdate(a)
    \/ FollowNotify(a)

\* Client c1 (address A, funded) tips and buys tickets of B and, at any
\* time, likes, comments and reposts B's post and follows B.
InitBusy ==
    /\ wallets = [x \in Addr |-> [exists |-> TRUE, gor_balance |-> MaxInitBal,
                                  tickets_holding |-> <<>>]]
    /\ profiles = [x \in Addr |-> [exists |-> TRUE, tickets_earned |-> 0,
                                   following |-> <<>>, followers |-> <<>>]]
    /\ posts = [p \in PostIds |-> CountedPost("B")]
    /\ notifications = <<>>
    /\ comments = <<>>
    /\ InitClientsProfiled
    /\ total0 = TotalBalance

NextBusy ==
    \/ FetchWalletData("c1")
    \/ FetchPosts("c1")
    \/ \E amount \in 1..MaxAmt : TipStart("c1", "B", amount)
    \/ BuyStart("c1", "B")
    \/ \E p \in PostIds : LikeStart("c1", p)
    \/ \E p \in PostIds : CommentStart("c1", p)
    \/ \E p \in PostIds : RepostStart("c1", p)
    \/ FollowStart("c1", "B")
    \/ \E a \in Slots : StepOf(a)

SpecBusy == InitBusy /\ [][NextBusy]_vars

\* ------------------------------------- settlements that nobody observes
\* the continuation of settlement a after the await its pc stands at
SettleStep(a) ==
    \/ TipBlockhash(a) \/ TipSend(a) \/ TipConfirm(a) \/ TipSenderUpdate(a)
    \/ TipReceiverFetch(a) \/ TipReceiverUpsert(a) \/ TipNotify(a)
    \/ BuyBlockhash(a) \/ BuySend(a) \/ BuyConfirm(a) \/ BuyTargetUsername(a)
    \/ BuyWalletUpdate(a) \/ BuyTargetFetch(a) \/ BuyProfileUpdate(a)
    \/ BuyNotify(a)
    \/ SellWalletUpdate(a) \/ SellTargetFetch(a) \/ SellProfileUpdate(a)

\* Client c1 tips B, buys and sells tickets of B, at most MaxOne
\* invocations, and may be unmounted at any time, also while a settlement
\* is in flight.
NextLive ==
    \/ cwa["c1"] \in Addr /\ FetchWalletData("c1")
    \/ Unmount("c1")
    \/ \E amount \in Amounts :
          cwa["c1"] \in Addr /\ Started < MaxOne /\ TipStart("c1", "B", amount)
    \/ cwa["c1"] \in Addr /\ Started < MaxOne /\ BuyStart("c1", "B")
    \/ cwa["c1"] \in Addr /\ Started < MaxOne /\ SellStart("c1", "B")
    \/ \E a \in Slots : SettleStep(a)

SpecLiveSafe == InitWalletOne /\ [][NextLive]_vars

\* Every request that was issued returns a result or an error, and the
\* event loop then runs the continuation that awaits it.
SpecLive == SpecLiveSafe /\ \A a \in Slots : WF_vars(SettleStep(a))

\* ------------------------------------- two settlements of one funded client
\* Client c1 (address A) tips B and buys tickets of B; the wallet row of A
\* holds enough for two settlements of the largest amount.
InitPair ==
    /\ wallets = [x \in Addr |->
                    IF x = "A"
                    THEN [exists |-> TRUE, gor_balance |-> MaxInitBal + MaxAmt,
                          tickets_holding |-> <<>>]
                    ELSE NoWallet]
    /\ profiles = [y \in Addr |-> [exists |-> TRUE, tickets_earned |-> 0]]
    /\ posts = [p \in PostIds |-> NewPost("A")]
    /\ notifications = <<>>
    /\ comments = <<>>
    /\ InitClients
    /\ total0 = TotalBalance

NextPair ==
    \/ FetchWalletData("c1")
    \/ \E amount \in 1..MaxAmt : TipStart("c1", "B", amount)
    \/ BuyStart("c1", "B")
    \/ \E a \in Slots : TipBlockhash(a)
    \/ \E a \in Slots : TipSend(a)
    \/ \E a \in Slots : TipConfirm(a)
    \/ \E a \in Slots : TipSenderUpdate(a)
    \/ \E a \in Slots : TipReceiverFetch(a)
    \/ \E a \in Slots : TipReceiverUpsert(a)
    \/ \E a \in Slots : TipNotify(a)
    \/ \E a \in Slots : BuyBlockhash(a)
    \/ \E a \in Slots : BuySend(a)
    \/ \E a \in Slots : BuyConfirm(a)
    \/ \E a \in Slots : BuyTargetUsername(a)
    \/ \E a \in Slots : BuyWalletUpdate(a)
    \/ \E a \in Slots : BuyTargetFetch(a)
    \/ \E a \in Slots : BuyProfileUpdate(a)
    \/ \E a \in Slots : BuyNotify(a)

SpecPair == InitPair /\ [][NextPair]_vars

\* ------------------------------------------------ profiles created lazily
\* a profile whose owner has edited the display name
EditedProfileRow ==
    [exists |-> TRUE, username |-> <<"edited">>, tickets_earned |-> 0,
     following |-> <<>>, followers |-> <<>>]

\* Clients connected with any address, same or not, whose profile row is
\* there or not; no profile fetched yet.
InitCreate ==
    /\ wallets = [x \in Addr |-> NoWallet]
    /\ profiles \in [Addr -> {NoProfileRow, EditedProfileRow}]
    /\ posts = [p \in PostIds |-> NewPost("A")]
    /\ notifications = <<>>
    /\ comments = <<>>
    /\ cwa \in [Clients -> Addr]
    /\ currentUserProfile = [c \in Clients |-> NoProfile]
    /\ walletData = [c \in Clients |-> DefaultWalletData]
    /\ walletVer = [c \in Clients |-> 0]
    /\ walletFeed = [c \in Clients |-> TRUE]
    /\ postsCache = [c \in Clients |-> <<>>]
    /\ postsFeed = [c \in Clients |-> TRUE]
    /\ subs = [c \in Clients |-> MountedFeeds(cwa[c])]
    /\ postsReply = [c \in Clients |-> <<>>]
    /\ att = [a \in Slots |-> IdleAtt]
    /\ total0 = TotalBalance

NextCreate ==
    \/ \E c \in Clients : ProfileFetchStart(c)
    \/ \E a \in Slots : ProfileSelect(a)
    \/ \E a \in Slots : ProfileInsert(a)

SpecCreate == InitCreate /\ [][NextCreate]_vars

\* ------------------------------------------- a client that changes wallet
\* Client c1 is connected with A, changes to another address or disconnects
\* at any time, fetches the wallet row of the address it is connected with
\* and tips and buys.  The rows of A and B hold different balances.
InitSwitch ==
    /\ wallets = [x \in Addr |->
                    [exists |-> TRUE,
                     gor_balance |-> IF x = "A" THEN MaxInitBal + MaxAmt ELSE MaxInitBal,
                     tickets_holding |-> <<>>]]
    /\ profiles = [y \in Addr |-> [exists |-> TRUE, tickets_earned |-> 0]]
    /\ posts = [p \in PostIds |-> NewPost("A")]
    /\ notifications = <<>>
    /\ comments = <<>>
    /\ InitClients
    /\ total0 = TotalBalance

NextSwitch ==
    \/ cwa["c1"] \in Addr /\ FetchWalletData("c1")
    \/ \E y \in Addr \cup {NoAddress} : WalletChange("c1", y)
    \/ \E target \in Addr, amount \in 1..MaxAmt :
          cwa["c1"] \in Addr /\ Started < MaxOne /\ TipStart("c1", target, amount)
    \/ \E target \in Addr :
          cwa["c1"] \in Addr /\ Started < MaxOne /\ BuyStart("c1", target)
    \/ \E a \in Slots : TipBlockhash(a)
    \/ \E a \in Slots : TipSend(a)
    \/ \E a \in Slots : TipConfirm(a)
    \/ \E a \in Slots : TipSenderUpdate(a)
    \/ \E a \in Slots : TipReceiverFetch(a)
    \/ \E a \in Slots : TipReceiverUpsert(a)
    \/ \E a \in Slots : TipNotify(a)
    \/ \E a \in Slots : BuyBlockhash(a)
    \/ \E a \in Slots : BuySend(a)
    \/ \E a \in Slots : BuyConfirm(a)
    \/ \E a \in Slots : BuyTargetUsername(a)
    \/ \E a \in Slots : BuyWalletUpdate(a)
    \/ \E a \in Slots : BuyTargetFetch(a)
    \/ \E a \in Slots : BuyProfileUpdate(a)
    \/ \E a \in Slots : BuyNotify(a)

SpecSwitch == InitSwitch /\ [][NextSwitch]_vars

\* ------------------------------------------- all side effects on a post
\* a post row with the columns no side effect is meant to touch
FullPost(x) ==
    [author_address |-> x, content |-> "text", created_at |-> 0,
     likes |-> <<>>, reposts |-> <<>>,
     likes_count |-> 0, reposts_count |-> 0, comments_count |-> 0]

\* Likes and unlikes of client c1, reposts and comments of client c2, on
\* the same posts.
InitSide ==
    /\ wallets = [x \in Addr |-> NoWallet]
    /\ profiles = [x \in Addr |-> [exists |-> TRUE, tickets_earned |-> 0]]
    /\ posts \in [PostIds -> {FullPost(x) : x \in Addr}]
    /\ notifications = <<>>
    /\ comments = <<>>
    /\ InitClients
    /\ total0 = TotalBalance

NextSide ==
    \/ \E c \in Clients : FetchPosts(c)
    \/ \E p \in PostIds : LikeStart("c1", p)
    \/ \E a \in Slots : LikeFetch(a)
    \/ \E a \in Slots : LikeUpdate(a)
    \/ \E p \in PostIds : RepostStart("c2", p)
    \/ \E a \in Slots : RepostFetch(a)
    \/ \E a \in Slots : RepostUpdate(a)
    \/ \E a \in Slots : RepostNotify(a)
    \/ \E p \in PostIds : CommentStart("c2", p)
    \/ \E a \in Slots : CommentFetch(a)
    \/ \E a \in Slots : CommentInsert(a)
    \/ \E a \in Slots : CommentCountUpdate(a)
    \/ \E a \in Slots : CommentNotify(a)

SpecSide == InitSide /\ [][NextSide]_vars

\* ------------------------------------------------------------------ claims
Settled == \A a \in Slots : att[a].pc \in {"idle", "aborted", "done"}
IsSettlement(a) == att[a].kind \in {"tip", "buy"}

\* C1: once every tip that was started has completed successfully (or was
\* refused by validation), the sum of gor_balance over all wallet records
\* equals the sum in the initial state.
C1_TipConservation ==
    (Settled /\ \E a \in Slots : att[a].kind = "tip" /\ att[a].pc = "done")
        => TotalBalance = total0

\* C2: in every tip that completed successfully, the write to the sender's
\* row lowered the stored balance by exactly amount and the write to the
\* recipient's row raised the stored balance by exactly amount.
C2_TipExactDelta ==
    \A a \in Slots :
        (att[a].kind = "tip" /\ att[a].pc = "done")
            => att[a].dS = 0 - att[a].amount /\ att[a].dR = att[a].amount

\* C3: no tip ends, successfully or with an error, having written the
\* sender's row but not the recipient's row.
C3_TipAtomic ==
    \A a \in Slots :
        (att[a].kind = "tip" /\ att[a].pc \in Terminal)
            => att[a].writes \in {0, 2}

\* C4: a tip or buyTicket whose ledger transfer has not been confirmed has
\* written nothing to the mirror and inserted no notification; one that
\* failed at sendTransaction or confirmTransaction has ended with an error
\* message shown and its transfer unconfirmed.
C4_LedgerFailureNoWrite ==
    \A a \in Slots :
        IsSettlement(a) =>
            /\ ~att[a].confirmed => att[a].writes = 0 /\ ~att[a].notified
            /\ att[a].reason \in {"send", "confirm"}
                  => /\ att[a].pc = "failed"
                     /\ att[a].shown = "error"
                     /\ ~att[a].confirmed

\* a tip has failed at confirmTransaction after its transfer was submitted
C4_Witness ==
    \E a \in Slots : /\ att[a].kind = "tip" /\ att[a].pc = "failed"
                     /\ att[a].reason = "confirm" /\ att[a].tx # NoTx

\* position of a stage in the order precheck, submission, confirmation,
\* mirror update, notification
Rank(pc) ==
    CASE pc = "idle" -> 0
      [] pc = "blockhash" -> 1
      [] pc = "sign" -> 2
      [] pc = "confirm" -> 3
      [] pc \in {"w_sender", "r_username"} -> 4
      [] pc \in {"r_recv", "w_wallet"} -> 5
      [] pc \in {"w_recv", "r_earned"} -> 6
      [] pc = "w_earned" -> 7
      [] pc = "notify" -> 8
      [] pc = "done" -> 9
      [] OTHER -> 10

C5_Inv ==
    \A a \in Slots :
        IsSettlement(a) =>
            /\ att[a].confirmed => att[a].tx # NoTx
            /\ att[a].writes > 0 => att[a].confirmed
            /\ Rank(att[a].pc) \in 1..3 => att[a].writes = 0
            /\ att[a].notified => att[a].writes = 2
            /\ att[a].pc \in {"notify", "done"} => att[a].writes = 2
            /\ att[a].pc = "aborted"
                  => /\ att[a].tx = NoTx /\ ~att[a].confirmed
                     /\ att[a].writes = 0 /\ ~att[a].notified

C5_Step ==
    \A a \in Slots :
        (IsSettlement(a) \/ att[a].pc = "idle") /\ att'[a].pc # att[a].pc /\
        att'[a].kind \in {"tip", "buy"}
            => \/ /\ att[a].pc = "idle"
                  /\ att'[a].pc \in {"aborted", "blockhash"}
                  /\ att'[a].pc = "blockhash"
                        <=> /\ att'[a].me # att'[a].target
                            /\ att'[a].amount > 0
                            /\ walletData[att'[a].client].gor_balance >= att'[a].amount
               \/ /\ att[a].pc \notin ({"idle"} \cup Terminal)
                  /\ att'[a].pc = "failed"
               \/ /\ att[a].pc \notin ({"idle"} \cup Terminal)
                  /\ att'[a].pc \notin {"aborted", "failed"}
                  /\ Rank(att'[a].pc) > Rank(att[a].pc)

\* C5: every tip and buyTicket attempt goes through precheck, submission,
\* confirmation, mirror update, notification in this order: it writes the
\* mirror only after its transfer is confirmed, it inserts its notification
\* only after both of its mirror writes, and it is aborted at once, with
\* nothing submitted, exactly when a precheck fails.
C5_StageOrder == [] C5_Inv /\ [][C5_Step]_vars

\* a buyTicket has gone through every stage and inserted its notification
C5_Witness ==
    \E a \in Slots : att[a].kind = "buy" /\ att[a].pc = "done" /\ att[a].notified

\* C6: after buyTicket(T) by a buyer whose stored balance was >= 1, followed
\* by sellTicket(T) by the same buyer, both successful and nothing else
\* invoked, the buyer's stored balance and T's tickets_earned are what they
\* were before the buy, and the buyer who held no entry for T before holds
\* none again.
C6_RoundTrip ==
    \A b \in Slots, s \in Slots :
        ( /\ b < s
          /\ att[b].kind = "buy" /\ att[b].pc = "done"
          /\ att[s].kind = "sell" /\ att[s].pc = "done" /\ att[s].solo
          /\ att[s].client = att[b].client /\ att[s].target = att[b].target
          /\ att[b].pre.bal >= 1
          /\ \A o \in Slots \ {b, s} : att[o].pc = "idle" )
        => /\ wallets[att[b].me].gor_balance = att[b].pre.bal
           /\ profiles[att[b].target].tickets_earned = att[b].pre.te
           /\ att[b].pre.cnt = 0
                 => FindIndex(wallets[att[b].me].tickets_holding, att[b].target) = 0

\* C7: for every post, likes_count is the number of distinct addresses in
\* likes.
C7_LikesCount ==
    \A p \in PostIds : posts[p].likes_count = Distinct(posts[p].likes)

\* C8: for every post, reposts_count is the number of distinct addresses in
\* reposts.
C8_RepostsCount ==
    \A p \in PostIds : posts[p].reposts_count = Distinct(posts[p].reposts)

\* both addresses have reposted the post
C8_Witness ==
    \E p \in PostIds : posts[p].reposts_count = 2 /\ Len(posts[p].reposts) = 2

\* C9: a buyTicket invoked while the buyer's stored balance is below 1, or
\* for the buyer itself, is aborted by validation: no ledger transaction
\* submitted, no mirror write.
C9_BuyValidation ==
    \A a \in Slots :
        (att[a].kind = "buy" /\ (att[a].pre.bal < 1 \/ att[a].target = att[a].me))
            => /\ att[a].pc = "aborted"
               /\ att[a].tx = NoTx
               /\ att[a].writes = 0

\* C10: a tip whose amount is <= 0 or whose recipient is the sender ends in
\* the validation error: it is aborted with an error shown, it has submitted
\* no ledger transaction and written nothing to the mirror; and no submitted
\* tip transaction is for a non-positive amount or to its own source.
C10_TipValidation ==
    \A a \in Slots :
        /\ (att[a].kind = "tip" /\ (att[a].amount <= 0 \/ att[a].target = att[a].me))
              => /\ att[a].pc = "aborted"
                 /\ att[a].shown = "error"
                 /\ att[a].tx = NoTx
                 /\ att[a].writes = 0
        /\ (att[a].kind = "tip" /\ att[a].tx # NoTx)
              => att[a].tx.amount > 0 /\ att[a].tx.source # att[a].tx.dest

\* a client with a funded wallet has had a tip of amount 0 to another
\* address refused
C10_Witness ==
    \E a \in Slots : /\ att[a].kind = "tip" /\ att[a].amount <= 0
                     /\ att[a].pc = "aborted" /\ att[a].reason = "amount"
                     /\ walletData[att[a].client].gor_balance >= 1

\* C11: the balance a tip or buyTicket attempt has checked, and from which
\* it computes the balance it writes, is the balance the sender's wallet
\* record held in the store when the attempt checked it.
C11_StoreBalanceUsed ==
    \A a \in Slots :
        (IsSettlement(a) /\ InFlight(a))
            => att[a].wd.gor_balance = att[a].pre.bal

\* a settlement step applies its write to a wallets or profiles row
C12_Applies(a) ==
    /\ att[a].kind \in {"tip", "buy", "sell"}
    /\ att'[a].writes = att[a].writes + 1

\* the row the step of attempt a writes still holds what a last observed
C12_Unchanged(a) ==
    CASE att[a].pc = "w_sender" ->
            wallets[att[a].me].gor_balance = att[a].wd.gor_balance
      [] att[a].pc = "w_wallet" ->
            wallets[att[a].me].gor_balance = att[a].wd.gor_balance
      [] att[a].pc = "w_recv" ->
            wallets[att[a].target].gor_balance = att[a].num
      [] att[a].pc = "w_earned" ->
            profiles[att[a].target].tickets_earned = att[a].num
      [] OTHER -> TRUE

\* C12: a settlement step (tip, buyTicket, sellTicket) applies a mirror
\* write only when the row still holds what the writer last observed.
C12_ConditionalUpdate ==
    [][\A a \in Slots : C12_Applies(a) => C12_Unchanged(a)]_vars

\* C20: no two tip or buyTicket attempts of one client are awaiting
\* sendTransaction at the same time.
C20_SigningSerialized ==
    \A a \in Slots, b \in Slots :
        ( /\ a # b
          /\ IsSettlement(a) /\ IsSettlement(b)
          /\ att[a].client = att[b].client )
            => ~(att[a].pc = "sign" /\ att[b].pc = "sign")

\* number of notification records of a type from sender x to recipient y
CountNotif(type, x, y) ==
    Cardinality({i \in DOMAIN notifications :
                    /\ notifications[i].type = type
                    /\ notifications[i].sender_address = x
                    /\ notifications[i].recipient_address = y})

\* C15 as stated: there are exactly as many tip notifications from x to y
\* as tips from x to y that completed successfully.
C15_OnePerSuccessfulTip ==
    \A x \in Addr, y \in Addr :
        CountNotif("tip", x, y) =
            Cardinality({a \in Slots : /\ att[a].kind = "tip" /\ att[a].pc = "done"
                                       /\ att[a].me = x /\ att[a].target = y})

\* C15: a tip records at most one tip notification, from the tipper to the
\* recipient, and only when it completed successfully with both mirror
\* writes applied: there are exactly as many tip notifications from x to y
\* as tips from x to y whose notification insert succeeded, and a tip that
\* was aborted or failed has none.
C15_TipNotification ==
    /\ \A x \in Addr, y \in Addr :
          CountNotif("tip", x, y) =
              Cardinality({a \in Slots : /\ att[a].kind = "tip" /\ att[a].notified
                                         /\ att[a].me = x /\ att[a].target = y})
    /\ \A a \in Slots :
          (att[a].kind = "tip" /\ att[a].notified)
              => att[a].pc = "done" /\ att[a].writes = 2 /\ att[a].confirmed

\* a tip has completed and its notification is recorded
C15_Witness ==
    \E a \in Slots : /\ att[a].kind = "tip" /\ att[a].pc = "done" /\ att[a].notified
                     /\ CountNotif("tip", att[a].me, att[a].target) = 1

\* C13: no notification record has its recipient_address equal to its
\* sender_address.
C13_NoSelfNotification ==
    \A i \in DOMAIN notifications :
        notifications[i].recipient_address # notifications[i].sender_address

\* an address has commented on its own post, the comment is counted and the
\* action has ended with no notification recorded
C13_Witness ==
    \E a \in Slots : /\ att[a].kind = "comment" /\ att[a].pc = "done"
                     /\ att[a].target = att[a].me /\ att[a].writes = 2
                     /\ notifications = <<>>

\* the step of attempt a is the end of its notification insert
C14_InsertEnds(a) ==
    /\ att[a].kind \in {"comment", "repost", "follow", "tip", "buy"}
    /\ att[a].pc = "notify"
    /\ att'[a] # att[a]

\* C14: the step that ends the notification insert of a comment, repost,
\* follow, tip or buyTicket, whether the insert succeeded or failed, ends
\* the action as completed with its success message standing, and leaves
\* every wallets, profiles and posts row and the count of the action's
\* mirror writes as they were; a failed insert leaves notifications as they
\* were.
C14_NotifyFailureSwallowed ==
    [][\A a \in Slots :
          C14_InsertEnds(a)
             => /\ att'[a].pc = "done"
                /\ att'[a].shown = "success"
                /\ att'[a].writes = att[a].writes /\ att'[a].writes >= 1
                /\ wallets' = wallets /\ profiles' = profiles /\ posts' = posts
                /\ ~att'[a].notified => notifications' = notifications]_vars

\* a follow has completed with both profile writes applied and its
\* notification insert failed
C14_Witness ==
    \E a \in Slots : /\ att[a].kind = "follow" /\ ~att[a].flag /\ att[a].pc = "done"
                     /\ ~att[a].notified /\ att[a].writes = 2
                     /\ att[a].shown = "success"
                     /\ Includes(profiles[att[a].me].following, att[a].target)

\* attempt a was invoked while no other handler was running, it has
\* completed successfully and nothing has been invoked since
LastCompleted(a) ==
    /\ att[a].pc = "done" /\ att[a].solo
    /\ \A b \in Slots : b > a => att[b].pc = "idle"

\* what a completed follow (isFollowing false) or unfollow (isFollowing
\* true) of attempt a leaves in the two profile rows
C16_Lists(a) ==
    /\ Includes(profiles[att[a].me].following, att[a].target) <=> ~att[a].flag
    /\ Includes(profiles[att[a].target].followers, att[a].me) <=> ~att[a].flag

\* C16 as stated: after a follow, A.following contains B and B.followers
\* contains A; after an unfollow, neither does; and there are exactly as
\* many follow notifications from A for B as completed follows of B by A
\* (one per follow, none per unfollow).
C16_FollowScenario ==
    /\ \A a \in Slots : (att[a].kind = "follow" /\ LastCompleted(a)) => C16_Lists(a)
    /\ \A x \in Addr, y \in Addr :
          CountNotif("follow", x, y) =
              Cardinality({a \in Slots : /\ att[a].kind = "follow" /\ att[a].pc = "done"
                                         /\ ~att[a].flag
                                         /\ att[a].me = x /\ att[a].target = y})

\* C16: after a follow, A.following contains B and B.followers contains A;
\* after an unfollow, neither does; a follow records at most one follow
\* notification for B, after both profile writes, namely when its insert
\* succeeds, and an unfollow records none.
C16_FollowUnfollow ==
    /\ \A a \in Slots : (att[a].kind = "follow" /\ LastCompleted(a)) => C16_Lists(a)
    /\ \A x \in Addr, y \in Addr :
          CountNotif("follow", x, y) =
              Cardinality({a \in Slots : /\ att[a].kind = "follow" /\ att[a].notified
                                         /\ att[a].me = x /\ att[a].target = y})
    /\ \A a \in Slots :
          (att[a].kind = "follow" /\ att[a].notified)
              => ~att[a].flag /\ att[a].pc = "done" /\ att[a].writes = 2

\* A has followed B, with the notification recorded, and then unfollowed B
C16_Witness ==
    \E a \in Slots, b \in Slots :
        /\ a < b
        /\ att[a].kind = "follow" /\ ~att[a].flag /\ att[a].pc = "done" /\ att[a].notified
        /\ att[b].kind = "follow" /\ att[b].flag /\ LastCompleted(b)
        /\ att[b].client = att[a].client /\ att[b].target = att[a].target
        /\ CountNotif("follow", att[a].me, att[a].target) = 1
        /\ ~Includes(profiles[att[a].me].following, att[a].target)

\* C17: the gor_balance of every wallet record is >= 0.
C17_BalanceNonNegative ==
    \A x \in Addr : wallets[x].exists => wallets[x].gor_balance >= 0

\* two settlements of one client, started from the same stored and cached
\* balance of 1, have both completed and the stored balance is 0
C17_Witness ==
    \E a \in Slots, b \in Slots :
        /\ a < b
        /\ IsSettlement(a) /\ IsSettlement(b)
        /\ att[a].client = att[b].client
        /\ att[a].pc = "done" /\ att[b].pc = "done"
        /\ att[a].pre.bal = 1 /\ att[b].pre.bal = 1
        /\ att[a].amount = 1 /\ att[b].amount = 1
        /\ wallets[att[a].me].gor_balance = 0

\* C19: the tickets_earned of every profile is >= 0.
C19_TicketsEarnedNonNegative ==
    \A y \in Addr : profiles[y].exists => profiles[y].tickets_earned >= 0

\* a sale has completed for a target whose tickets_earned was 0 when the
\* sale was invoked
C19_Witness ==
    \E a \in Slots : /\ att[a].kind = "sell" /\ att[a].pc = "done"
                     /\ att[a].pre.te = 0
                     /\ profiles[att[a].target].tickets_earned = 0

\* C18: no tickets_holding list of a wallet record has an entry whose count
\* is 0 or less.
C18_NoZeroHolding ==
    \A x \in Addr :
        \A i \in DOMAIN wallets[x].tickets_holding :
            wallets[x].tickets_holding[i].count >= 1

\* number of comment records whose post_id is p
CommentRecords(p) ==
    Cardinality({i \in DOMAIN comments : comments[i].post_id = p})

\* C30: once every comment action that was started has ended with both of
\* its writes applied (the comment record and the counter), the
\* comments_count of every post equals the number of comment records whose
\* post_id is that post.
C30_CommentsCount ==
    (\A a \in Slots : att[a].pc = "idle"
                        \/ (att[a].kind = "comment" /\ att[a].pc = "done"
                            /\ att[a].writes = 2))
        => \A p \in DOMAIN posts : posts[p].comments_count = CommentRecords(p)

\* the step is attempt a leaving the await it was at in pc for the one in nx
Moves(a, kind, pc, nx) ==
    att[a].kind = kind /\ att[a].pc = pc /\ att'[a].pc = nx

\* C28: in a buyTicket(target) whose requests succeed, the transfer
\* submitted is of exactly 1 from the buyer to target, the wallet update
\* lowers the buyer's stored balance by exactly 1 and raises the buyer's
\* holding count for target by exactly 1, the profile update raises target's
\* tickets_earned by exactly 1, and the notification insert records one
\* ticket_buy notification for target.
C28_BuyEffects ==
    [][\A a \in Slots :
         LET x == att[a].me
             y == att[a].target
         IN /\ Moves(a, "buy", "sign", "confirm")
                  => att'[a].tx = [source |-> x, dest |-> y, amount |-> 1]
            /\ Moves(a, "buy", "w_wallet", "r_earned")
                  => /\ wallets'[x].gor_balance = wallets[x].gor_balance - 1
                     /\ HoldingCount(wallets'[x].tickets_holding, y)
                           = HoldingCount(wallets[x].tickets_holding, y) + 1
            /\ Moves(a, "buy", "w_earned", "notify")
                  => profiles'[y].tickets_earned = profiles[y].tickets_earned + 1
            /\ (Moves(a, "buy", "notify", "done") /\ att'[a].notified)
                  => /\ Len(notifications') = Len(notifications) + 1
                     /\ CountNotif("ticket_buy", x, y)' = CountNotif("ticket_buy", x, y) + 1
      ]_vars

\* C29: sellTicket(target) submits no ledger transaction; started while the
\* seller holds no entry for target with count >= 1 it is rejected and writes
\* nothing; otherwise its wallet update lowers the seller's stored holding
\* count for target by exactly 1 (no entry is left at 0) and raises the
\* seller's stored balance by exactly 1, and its profile update lowers
\* target's tickets_earned by 1, floored at 0.
C29_SellEffects ==
    [][\A a \in Slots :
         LET x == att[a].me
             y == att[a].target
         IN /\ att'[a].kind = "sell" => att'[a].tx = NoTx
            /\ (att[a].pc = "idle" /\ att'[a].kind = "sell"
                  /\ HoldingCount(walletData[att'[a].client].tickets_holding,
                                  att'[a].target) < 1)
                  => att'[a].pc = "aborted" /\ att'[a].writes = 0
            /\ Moves(a, "sell", "w_wallet", "r_earned")
                  => /\ wallets'[x].gor_balance = wallets[x].gor_balance + 1
                     /\ HoldingCount(wallets'[x].tickets_holding, y)
                           = HoldingCount(wallets[x].tickets_holding, y) - 1
                     /\ \A i \in DOMAIN wallets'[x].tickets_holding :
                           wallets'[x].tickets_holding[i].wallet_address = y
                              => wallets'[x].tickets_holding[i].count >= 1
            /\ Moves(a, "sell", "w_earned", "done")
                  => profiles'[y].tickets_earned
                        = Max(0, profiles[y].tickets_earned - 1)
      ]_vars

\* the step is the mirror write awaited by settlement attempt a, whose
\* transfer is confirmed, answered with an error: the attempt leaves the
\* await and nothing was written
C23_WriteFails(a) ==
    /\ IsSettlement(a) /\ att[a].confirmed
    /\ att[a].pc \in {"w_sender", "w_recv", "w_wallet", "w_earned"}
    /\ att'[a].pc # att[a].pc
    /\ att'[a].writes = att[a].writes

\* C23: when a mirror write of a tip or buyTicket attempt whose transfer is
\* confirmed fails, the attempt ends as failed in that very step, and an
\* attempt that has failed after its transfer was confirmed takes no further
\* step: it issues no request and writes nothing any more.
C23_StuckAfterFailedWrite ==
    [][\A a \in Slots :
         /\ C23_WriteFails(a) => att'[a].pc = "failed"
         /\ (IsSettlement(a) /\ att[a].confirmed /\ att[a].pc = "failed")
               => att'[a] = att[a]
      ]_vars

\* a tip whose transfer is confirmed and whose sender update was applied has
\* failed at the receiver upsert
C23_Witness ==
    \E a \in Slots : /\ att[a].kind = "tip" /\ att[a].pc = "failed"
                     /\ att[a].confirmed /\ att[a].tx # NoTx
                     /\ att[a].reason = "w_recv" /\ att[a].writes = 1

\* C24: no step removes a notification or changes a field of one other than
\* read; read never goes from true to false; and the only step that sets it
\* is the update of a handleMarkNotificationRead called for that
\* notification by a client whose address is its recipient_address (so the
\* call of any other client changes nothing).
C24_ReadOnlyByRecipient ==
    [][/\ Len(notifications') >= Len(notifications)
       /\ \A i \in DOMAIN notifications :
            LET o == notifications[i]
                n == notifications'[i]
            IN /\ [n EXCEPT !.read = o.read] = o
               /\ o.read => n.read
               /\ n.read # o.read
                     => \E a \in Slots : /\ Moves(a, "read", "w_read", "done")
                                         /\ att[a].num = i
                                         /\ att[a].me = o.recipient_address
      ]_vars

\* handleMarkNotificationRead was called for one notification by a client
\* that is not its recipient, whose update changed no row, and by its
\* recipient, whose update set read
C24_Witness ==
    \E a \in Slots, b \in Slots :
        /\ att[a].kind = "read" /\ att[a].pc = "done" /\ att[a].writes = 0
        /\ att[b].kind = "read" /\ att[b].pc = "done" /\ att[b].writes = 1
        /\ att[a].num = att[b].num /\ att[a].num \in DOMAIN notifications
        /\ notifications[att[a].num].recipient_address = att[b].me
        /\ att[a].me # att[b].me
        /\ notifications[att[a].num].read

\* no handler is running, no change event awaits its refetch, every answer
\* to a fetchPosts select has arrived
PostsQuiet ==
    /\ \A a \in Slots : ~InFlight(a)
    /\ \A c \in Clients : /\ ~postsFeed[c]
                           /\ \A i \in DOMAIN postsReply[c] : postsReply[c][i].back

\* C21 for the posts table: once the writes have stopped and every refetch
\* that was issued has returned (here: each of them with rows, none with an
\* error), the posts cache of every client that holds the posts feed is
\* the content of the posts table.
C21_CacheConverges ==
    ( /\ PostsQuiet
      /\ \A c \in Clients : \A i \in DOMAIN postsReply[c] : postsReply[c][i].ok )
        => \A c \in Clients :
              Subscribed(c, "posts", "*") => postsCache[c] = PostsSelect

\* the ids of the rows of a posts cache
CacheIds(cache) == {cache[i].id : i \in DOMAIN cache}

\* C27: the posts cache of a client never has two entries with the same
\* id; it changes only when an answer to fetchPosts arrives, and then it is
\* exactly the rows of that answer.
C27_NoDuplicatePost ==
    [][\A c \in Clients :
         /\ Cardinality(CacheIds(postsCache'[c])) = Len(postsCache'[c])
         /\ postsCache'[c] # postsCache[c]
               => \E i \in DOMAIN postsReply[c] :
                     /\ ~postsReply[c][i].back /\ postsReply'[c][i].back
                     /\ postsReply[c][i].ok
                     /\ postsCache'[c] = postsReply[c][i].data
      ]_vars

\* the client that created a post has refetched twice and shows the post it
\* created, next to an older one
C27_Witness ==
    \E a \in Slots :
        /\ att[a].kind = "post" /\ att[a].pc = "done"
        /\ Len(postsReply[att[a].client]) >= 2
        /\ \A i \in DOMAIN postsReply[att[a].client] : postsReply[att[a].client][i].back
        /\ Len(postsCache[att[a].client]) >= 2
        /\ postsCache[att[a].client] = PostsSelect
        /\ \E i \in DOMAIN postsCache[att[a].client] :
              postsCache[att[a].client][i].author_address = att[a].me

\* the feeds a client can hold, and how many of each it holds open
AllFeeds ==
    {Feed(t, k) : t \in {"posts", "profiles", "wallets", "notifications"},
                  k \in Addr \cup {"*"}}

FeedCount(c, f) == Cardinality({i \in DOMAIN subs[c] : subs[c][i] = f})

\* the (table, key) pairs a client needs: posts and profiles unfiltered
\* while it is mounted, and the profile, wallet and notifications of the
\* connected address while there is one
FeedsNeeded(c) ==
    IF cwa[c] = Unmounted THEN {}
    ELSE {Feed("posts", "*"), Feed("profiles", "*")}
         \cup (IF cwa[c] = NoAddress THEN {}
               ELSE {Feed(t, cwa[c]) : t \in {"profiles", "wallets", "notifications"}})

\* C22: after every step each client holds exactly one open feed for every
\* pair it needs and none for any other pair (so none filtered on an
\* address it has left, and none at all once unmounted); and a change event
\* makes a client call fetchWalletData only when the wallet row of the
\* address it is connected with was written.
C22_OneFeedPerPair ==
    [][\A c \in Clients :
         /\ \A f \in AllFeeds :
               FeedCount(c, f)' = IF f \in FeedsNeeded(c)' THEN 1 ELSE 0
         /\ Len(subs'[c]) = Cardinality(FeedsNeeded(c)')
         /\ (~walletFeed[c] /\ walletFeed'[c])
               => \/ cwa'[c] # cwa[c]
                  \/ wallets'[cwa[c]] # wallets[cwa[c]]
      ]_vars

\* a client has been connected with address A, whose wallet row its fetch
\* created; both clients are now connected with B, have fetched its wallet
\* row and hold the feeds of B only
C22_Witness ==
    /\ wallets["A"].exists /\ wallets["B"].exists
    /\ \A c \in Clients :
          /\ cwa[c] = "B"
          /\ ~walletFeed[c]
          /\ FeedCount(c, Feed("wallets", "B")) = 1
          /\ FeedCount(c, Feed("wallets", "A")) = 0

\* C25: while a tip or buyTicket of a client awaits the signature or the
\* confirmation of the ledger, the client can start a like, a comment, a
\* repost, a follow and another settlement (as long as it has a free
\* handler instance), every other handler instance of the client that is
\* running can take its next step, and the refetches that change events
\* have asked for can run.
C25_LedgerCallBlocksNothing ==
    \A c \in Clients :
        LedgerPending(c) =>
            /\ (\E a \in Slots : att[a].pc = "idle")
                  => /\ \A p \in DOMAIN postsCache[c] :
                          /\ ENABLED LikeStart(c, p)
                          /\ ENABLED CommentStart(c, p)
                          /\ ENABLED RepostStart(c, p)
                     /\ \A target \in Addr :
                          /\ ENABLED FollowStart(c, target)
                          /\ ENABLED BuyStart(c, target)
                          /\ ENABLED TipStart(c, target, 1)
            /\ \A b \in Slots :
                  (att[b].client = c /\ InFlight(b)) => ENABLED StepOf(b)
            /\ walletFeed[c] => ENABLED FetchWalletData(c)
            /\ postsFeed[c] => ENABLED FetchPosts(c)

\* a tip still awaits the ledger and an action of the same client that was
\* started after it has run to completion
C25_Witness ==
    \E a \in Slots, b \in Slots :
        /\ a < b /\ att[a].client = att[b].client
        /\ att[a].kind = "tip" /\ att[a].pc = "sign"
        /\ att[b].kind \in {"like", "comment", "repost", "follow", "buy"}
        /\ att[b].pc = "done" /\ att[b].writes >= 1

\* C26: when every request a settlement issues returns, every tip,
\* buyTicket and sellTicket that is in flight reaches a terminal outcome
\* (done, aborted or failed), also after the client was unmounted.
C26_AttemptsEnd ==
    \A a \in Slots : InFlight(a) ~> ~InFlight(a)

\* a settlement has run to its end, mirror writes included, after the
\* client was unmounted
C26_Witness ==
    \E a \in Slots :
        /\ att[a].kind \in {"tip", "buy", "sell"}
        /\ att[a].pc = "done" /\ att[a].writes >= 1
        /\ cwa[att[a].client] = Unmounted

\* C32: in every state where no follow / unfollow is in flight, for all
\* addresses x and y, y is in the following of x exactly when x is in the
\* followers of y.
C32_FollowSymmetry ==
    (\A a \in Slots : ~(att[a].kind = "follow" /\ InFlight(a)))
        => \A x \in Addr, y \in Addr :
              Includes(profiles[x].following, y) <=> Includes(profiles[y].followers, x)

\* C33: in every state where no buyTicket / sellTicket is in flight, the
\* tickets_earned of every address y is the sum, over all wallet records,
\* of the count held for y.
C33_TicketAccounting ==
    (\A a \in Slots : ~(att[a].kind \in {"buy", "sell"} /\ InFlight(a)))
        => \A y \in Addr :
              profiles[y].exists
                 => profiles[y].tickets_earned = SumHeld(wallets, y, Addr)

\* C34: when two settlements (tip or buyTicket) of one client, the second
\* invoked while the store still held the balance the first one found (so
\* before any refresh of the cache from the first one's write), have both
\* completed and nothing else was invoked, the stored balance of the client
\* is lower by the sum of both amounts, and the count held for the target
\* of two buys is higher by 2.
C34_BothAccounted ==
    \A a \in Slots, b \in Slots :
        ( /\ a < b
          /\ IsSettlement(a) /\ IsSettlement(b)
          /\ att[a].client = att[b].client
          /\ att[a].pc = "done" /\ att[b].pc = "done"
          /\ att[a].pre.bal = att[b].pre.bal
          /\ \A o \in Slots \ {a, b} : att[o].pc = "idle" )
        => /\ wallets[att[a].me].gor_balance
                 = att[a].pre.bal - (att[a].amount + att[b].amount)
           /\ (att[a].kind = "buy" /\ att[b].kind = "buy"
                  /\ att[a].target = att[b].target)
                 => HoldingCount(wallets[att[a].me].tickets_holding, att[a].target)
                       = att[a].pre.cnt + 2

\* the profile fetches that have inserted a row for address x
ProfileCreators(x) ==
    {a \in Slots : att[a].kind = "profile" /\ att[a].me = x /\ att[a].writes >= 1}

StoredWalletData(x) ==
    [gor_balance |-> wallets[x].gor_balance,
     tickets_holding |-> wallets[x].tickets_holding]

\* C35: as long as no settlement has written to the store, the wallet cache
\* of a connected client holds the initial value or the row of the address
\* it is connected with, and the wallet record from which a settlement in
\* flight computes what it writes is the row of the address it writes to.
C35_CacheOfConnected ==
    (\A a \in Slots : att[a].writes = 0)
        => /\ \A c \in Clients :
                 cwa[c] \in Addr
                    => walletData[c] \in {DefaultWalletData, StoredWalletData(cwa[c])}
           /\ \A a \in Slots :
                 (IsSettlement(a) /\ InFlight(a))
                    => att[a].wd = StoredWalletData(att[a].me)

\* C36: when the answer to a fetchPosts call arrives after the answer to a
\* call issued later has been applied, it leaves the posts cache as it is.
C36_IssueOrder ==
    [][\A c \in Clients :
         \A i \in DOMAIN postsReply[c] :
            ( /\ ~postsReply[c][i].back /\ postsReply'[c][i].back
              /\ \E j \in DOMAIN postsReply[c] :
                    j > i /\ postsReply[c][j].back /\ postsReply[c][j].ok )
               => postsCache'[c] = postsCache[c]
      ]_vars

\* C37: after the only action of a client has failed at its first mirror
\* write, the cache of the client is as it was: after a follow whose
\* update of following failed, the cached following list does not contain
\* the target; after a sale whose wallet update failed, the cached count
\* held for the target is the stored one.
C37_FailedWriteKeepsCache ==
    \A a \in Slots :
        (\A o \in Slots \ {a} : att[o].pc = "idle")
            => /\ ( /\ att[a].kind = "follow" /\ ~att[a].flag
                    /\ att[a].pc = "failed" /\ att[a].reason = "w_following" )
                  => ~Includes(currentUserProfile[att[a].client].following,
                               att[a].target)
               /\ ( /\ att[a].kind = "sell"
                    /\ att[a].pc = "failed" /\ att[a].reason = "w_wallet" )
                  => HoldingCount(walletData[att[a].client].tickets_holding,
                                  att[a].target)
                        = HoldingCount(wallets[att[a].me].tickets_holding,
                                       att[a].target)

\* the columns of post p that a handler of the given kind writes are the
\* only ones in which the row differs after the step
C38_OnlyOwnFields(kind, p) ==
    CASE kind = "like" ->
            posts'[p] = [posts[p] EXCEPT !.likes = posts'[p].likes,
                                         !.likes_count = posts'[p].likes_count]
      [] kind = "repost" ->
            posts'[p] = [posts[p] EXCEPT !.reposts = posts'[p].reposts,
                                         !.reposts_count = posts'[p].reposts_count]
      [] kind = "comment" ->
            posts'[p] = [posts[p] EXCEPT !.comments_count = posts'[p].comments_count]
      [] OTHER -> posts'[p] = posts[p]

\* C38: a step of a like changes at most likes and likes_count of its
\* post, a step of a repost at most reposts and reposts_count, a step of a
\* comment at most comments_count; no step changes another post, the
\* author, the content or the timestamp of a post, or removes a post; and
\* when a like and a repost of one post have both made their write, with no
\* other like or repost of that post invoked, the post is liked by the one
\* address and reposted by the other.
C38_OwnFieldsOnly ==
    [][ /\ DOMAIN posts' = DOMAIN posts
        /\ \A p \in DOMAIN posts :
             /\ posts'[p].author_address = posts[p].author_address
             /\ posts'[p].content = posts[p].content
             /\ posts'[p].created_at = posts[p].created_at
        /\ \A a \in Slots :
             att'[a] # att[a]
                => \A p \in DOMAIN posts :
                      IF p = att'[a].post
                      THEN C38_OnlyOwnFields(att'[a].kind, p)
                      ELSE posts'[p] = posts[p]
        /\ \A a \in Slots, b \in Slots :
             ( /\ att'[a].kind = "like" /\ ~att'[a].flag /\ att'[a].writes = 1
               /\ att'[b].kind = "repost" /\ att'[b].writes = 1
               /\ att'[a].post = att'[b].post
               /\ \A o \in Slots \ {a, b} :
                     att'[o].kind \in {"like", "repost"} => att'[o].post # att'[a].post )
                => /\ Includes(posts'[att'[a].post].likes, att'[a].me)
                   /\ Includes(posts'[att'[a].post].reposts, att'[b].me)
      ]_vars

\* a like invoked after a repost of the same post, and before the repost
\* has ended, has made its write, and so has the repost: the post counts one
\* like and one repost and keeps its content
C38_Witness ==
    \E a \in Slots, b \in Slots, p \in PostIds :
        /\ b < a
        /\ att[a].kind = "like" /\ att[a].pc = "done" /\ ~att[a].flag
        /\ att[b].kind = "repost" /\ att[b].pc = "notify" /\ att[b].writes = 1
        /\ att[a].post = p /\ att[b].post = p
        /\ posts[p].likes_count = 1 /\ posts[p].reposts_count = 1
        /\ posts[p].content = "text"

\* how many times address x is in an array of addresses
C39_Times(list, x) == Cardinality({i \in DOMAIN list : list[i] = x})

\* every repost of the post of attempt a that has been invoked, running or
\* ended, is a repost by the address of a
C39_OnlyReposter(a) ==
    \A o \in Slots :
        (att[o].kind = "repost" /\ att[o].post = att[a].post)
            => att[o].me = att[a].me

\* C39: a repost that finds its address in the reposts of the post ends
\* there: it writes nothing to the post and records no notification.  A
\* repost that writes leaves its address in reposts exactly once, and when
\* all reposts of the post are by that address, the first write adds the
\* address and 1 to reposts_count and a later write, by an invocation that
\* had read the row before the first write, changes nothing.
C39_RepostOnce ==
    [][\A a \in Slots :
         (att[a].kind = "repost" /\ att'[a] # att[a])
            => LET p == att[a].post
                   me == att[a].me
               IN /\ (att[a].pc = "r_post" /\ Includes(posts[p].reposts, me))
                        => /\ att'[a].pc \in {"aborted", "failed"}
                           /\ att'[a].writes = 0 /\ ~att'[a].notified
                           /\ posts' = posts /\ notifications' = notifications
                  /\ (att[a].pc = "w_post" /\ att'[a].writes = att[a].writes + 1)
                        => /\ C39_Times(posts'[p].reposts, me) = 1
                           /\ C39_OnlyReposter(a)
                                 => IF Includes(posts[p].reposts, me)
                                    THEN posts'[p] = posts[p]
                                    ELSE /\ posts'[p].reposts = Append(posts[p].reposts, me)
                                         /\ posts'[p].reposts_count
                                               = posts[p].reposts_count + 1
      ]_vars

\* two reposts of one post by one address have both read the row before
\* either wrote and have both made their write: the address is in reposts
\* once and reposts_count is 1
C39_Witness ==
    \E a \in Slots, b \in Slots :
        /\ a < b
        /\ att[a].kind = "repost" /\ att[b].kind = "repost"
        /\ att[a].me = att[b].me /\ att[a].post = att[b].post
        /\ att[a].writes = 1 /\ att[b].writes = 1
        /\ C39_Times(posts[att[a].post].reposts, att[a].me) = 1
        /\ posts[att[a].post].reposts_count = 1
====
